---- MODULE Spec2Model ----
(***************************************************************************)
(* Model of the scheduling service's availability resolution pipeline:     *)
(* HandleRequest (cmd/main.go), MatchAddressToQuery (clients/openai.go),   *)
(* WaitForOpenAI (ratelimit), MapAgent (logic/mapper.go) and               *)
(* GenerateAvailableSlots (logic).                                         *)
(*                                                                         *)
(* Spec is one invocation of HandleRequest.  SlotSpec and MapperSpec start *)
(* the handler right before GenerateAvailableSlots and MapAgent, with      *)
(* wider inputs.  LimiterSpec is several invocations contending for the    *)
(* process-wide rate limiter; LimiterLiveSpec adds the scheduler's         *)
(* fairness.  TableSpec is several invocations running MapAgent against    *)
(* the shared PDAgentMap, statement by statement.  FormatSpec applies      *)
(* formatMessage to availabilities of its own, repeatedly and under any    *)
(* iteration order of its date-to-times map.                               *)
(*                                                                         *)
(* Go strings that the code inspects character by character (group names,  *)
(* the language model's answer) are sequences of one-character strings;    *)
(* all other strings are TLA+ strings.  A formatted message is the         *)
(* sequence of the pieces fmt.Sprintf concatenates (the pictographs of the *)
(* literals are left out).  Instants are ticks since Monday 00:00 local    *)
(* time of a week without a daylight-saving transition.                    *)
(***************************************************************************)
EXTENDS Integers, Sequences, FiniteSets, TLC

\* ------------------------------------------------------------------ bounds
TicksPerMinute == 2
MaxGroups == 2
MaxBusy == 2
\* concurrent invocations, clock ticks per refill interval of the rate limiter,
\* the ticks for which an admitted request is remembered, and the longest wait
\* (in ticks) the deadline of an invocation's context leaves room for
NumInvocations == 2
TicksPerRefill == 2
HorizonTicks == 4
MaxWaitTicks == 4

\* ------------------------------------------------------- program constants
WorkStartHour == 9
WorkEndHour == 17
SlotMinutes == 30
MaxDays == 7
FridayEndHour == 15
FridayEndMinute == 30
BufferHours == 2
SlotCap == 30
MaxDatesShown == 5
MaxTimesShown == 6
OpenAIRequestsPerMinute == 10
OpenAIBurstSize == 3

\* ------------------------------------------------------------------- time
Minute == TicksPerMinute
Hour == 60 * Minute
Day == 24 * Hour
SlotDuration == SlotMinutes * Minute

Range(s) == {s[i] : i \in 1..Len(s)}

\* day index of an instant (days since the epoch Monday)
DayIndex(t) == t \div Day
\* time.Weekday: the epoch day is a Monday
WeekdayNames == <<"Monday", "Tuesday", "Wednesday", "Thursday", "Friday", "Saturday", "Sunday">>
Weekday(t) == WeekdayNames[(DayIndex(t) % 7) + 1]
\* time.Date(y, m, d, hour, min, 0, 0, loc) for the local day of t
DateAt(t, hour, min) == DayIndex(t) * Day + hour * Hour + min * Minute
\* Time.AddDate(0, 0, d): same wall clock, d days later
AddDays(t, d) == t + d * Day
\* Time.Minute()
MinuteOfHour(t) == (t \div Minute) % 60
HourOfDay(t) == (t % Day) \div Hour
\* Time.Truncate(time.Minute)
TruncateMinute(t) == t - (t % Minute)

TwoDigits(n) == IF n < 10 THEN "0" \o ToString(n) ELSE ToString(n)
FormatDate_WithHour(t) ==
    Weekday(t) \o ", day " \o ToString(DayIndex(t)) \o ", " \o ToString(HourOfDay(t))

\* start.Format("Monday, January 2, 2006"): the weekday and the calendar day
FormatDate(t) == Weekday(t) \o ", day " \o ToString(DayIndex(t))
\* start.Format("3:04 PM")
FormatClock(t) ==
    LET h == HourOfDay(t)
        h12 == IF h % 12 = 0 THEN 12 ELSE h % 12
    IN ToString(h12) \o ":" \o TwoDigits(MinuteOfHour(t)) \o
       (IF h < 12 THEN " AM" ELSE " PM")

formatSlot(start, end) ==
    [Date |-> FormatDate(start), Time |-> FormatClock(start), Start |-> start, End |-> end]

\* ---------------------------------------------------------- slot generator
isBusy_ClosedIntervals(start, end, busy) ==
    \E i \in 1..Len(busy) : start <= busy[i].End /\ end >= busy[i].Start

isBusy(start, end, busy) ==
    \E i \in 1..Len(busy) : start < busy[i].End /\ end > busy[i].Start

RECURSIVE WalkSlots_StopsBeforeDayEnd(_, _)
WalkSlots_StopsBeforeDayEnd(curr, workEnd) ==
    IF curr + SlotDuration < workEnd
    THEN <<curr>> \o WalkSlots_StopsBeforeDayEnd(curr + SlotDuration, workEnd)
    ELSE <<>>

\* the inner loop: candidates from curr while curr + SlotDuration <= workEnd
RECURSIVE WalkSlots(_, _)
WalkSlots(curr, workEnd) ==
    IF curr + SlotDuration <= workEnd
    THEN <<curr>> \o WalkSlots(curr + SlotDuration, workEnd)
    ELSE <<>>

IsBusinessDay_SundayWorks(dayDate) == Weekday(dayDate) # "Saturday"

\* the weekend test of the day loop
IsBusinessDay(dayDate) == Weekday(dayDate) \notin {"Saturday", "Sunday"}

WorkEnd_NoFridayRule(dayDate) == DateAt(dayDate, WorkEndHour, 0)

\* the end of the working day: 17:00, on a Friday 15:30
WorkEnd(dayDate) ==
    IF Weekday(dayDate) = "Friday"
    THEN DateAt(dayDate, FridayEndHour, FridayEndMinute)
    ELSE DateAt(dayDate, WorkEndHour, 0)

\* the rounding of a raised day start: up to the next half hour by the
\* minute of the hour, then Truncate(time.Minute)
RoundUpToSlot(t) ==
    LET remainder == MinuteOfHour(t) % 30
        add == IF remainder # 0 THEN 30 - remainder ELSE 0
    IN TruncateMinute(t + add * Minute)

DayScan_SkippedDayNotCounted(referenceTime, d) ==
    LET minStartTime == referenceTime + BufferHours * Hour
        dayDate == AddDays(referenceTime, d)
        weekend == ~IsBusinessDay(dayDate)
        workStart0 == DateAt(dayDate, WorkStartHour, 0)
        workEnd == WorkEnd(dayDate)
        raised == workStart0 < minStartTime
        skipped == raised /\ minStartTime > workEnd
        workStart == IF raised THEN RoundUpToSlot(minStartTime) ELSE workStart0
    IN [counted |-> ~weekend /\ ~skipped,
        candidates |-> IF weekend \/ skipped THEN <<>> ELSE WalkSlots(workStart, workEnd)]

\* one iteration of the day loop: whether the day is counted and its candidates
DayScan(referenceTime, d) ==
    LET minStartTime == referenceTime + BufferHours * Hour
        dayDate == AddDays(referenceTime, d)
        weekend == ~IsBusinessDay(dayDate)
        workStart0 == DateAt(dayDate, WorkStartHour, 0)
        workEnd == WorkEnd(dayDate)
        raised == workStart0 < minStartTime
        skipped == raised /\ minStartTime > workEnd
        workStart == IF raised THEN RoundUpToSlot(minStartTime) ELSE workStart0
    IN [counted |-> ~weekend,
        candidates |-> IF weekend \/ skipped THEN <<>> ELSE WalkSlots(workStart, workEnd)]

RECURSIVE Candidates(_, _)
Candidates(referenceTime, d) ==
    IF d >= MaxDays THEN <<>>
    ELSE DayScan(referenceTime, d).candidates \o Candidates(referenceTime, d + 1)

RECURSIVE FreeOf(_, _)
FreeOf(cands, busy) ==
    IF cands = <<>> THEN <<>>
    ELSE LET s == Head(cands)
         IN (IF isBusy(s, s + SlotDuration, busy) THEN <<>>
             ELSE <<formatSlot(s, s + SlotDuration)>>) \o FreeOf(Tail(cands), busy)

GenerateAvailableSlots_CountsFreeOnly(busySlots, referenceTime) ==
    LET cands == Candidates(referenceTime, 0)
    IN [availableSlots |-> FreeOf(cands, busySlots),
        daysChecked |-> Cardinality({d \in 0..(MaxDays - 1) : DayScan(referenceTime, d).counted}),
        totalSlots |-> Len(FreeOf(cands, busySlots))]

GenerateAvailableSlots(busySlots, referenceTime) ==
    LET cands == Candidates(referenceTime, 0)
    IN [availableSlots |-> FreeOf(cands, busySlots),
        daysChecked |-> Cardinality({d \in 0..(MaxDays - 1) : DayScan(referenceTime, d).counted}),
        totalSlots |-> Len(cands)]

\* ------------------------------------------------------------ agent mapper
\* unicode.IsSpace on the characters of the model, which are those of Latin-1:
\* space, tab, line feed, carriage return, form feed, and (written as the
\* characters themselves) vertical tab, U+0085 and U+00A0
IsSpace(c) == c \in {" ", "\t", "\n", "\r", "\f", "", "", " "}
\* strings.TrimSpace
RECURSIVE TrimLeft(_)
TrimLeft(s) == IF s # <<>> /\ IsSpace(Head(s)) THEN TrimLeft(Tail(s)) ELSE s
RECURSIVE TrimRight(_)
TrimRight(s) ==
    IF s # <<>> /\ IsSpace(s[Len(s)]) THEN TrimRight(SubSeq(s, 1, Len(s) - 1)) ELSE s
TrimSpace(s) == TrimRight(TrimLeft(s))
\* unicode.ToUpper on the characters of the model: the letters a to z, the
\* Latin-1 letters U+00E0 to U+00FE (U+00F7, the division sign, is no letter),
\* U+00FF and the micro sign U+00B5 have an upper case; every other character
\* (digits, punctuation, white space, capitals, U+00DF) is its own upper case.
\* The upper cases of U+00FF and U+00B5 lie beyond Latin-1 and are written by
\* their code points, "U+0178" and "U+039C".
UpperChar(c) ==
    LET
        lower == <<"a", "b", "c", "d", "e", "f", "g", "h", "i", "j", "k", "l", "m",
                   "n", "o", "p", "q", "r", "s", "t", "u", "v", "w", "x", "y", "z",
                   "à", "á", "â", "ã", "ä", "å", "æ", "ç", "è", "é", "ê", "ë", "ì",
                   "í", "î", "ï", "ð", "ñ", "ò", "ó", "ô", "õ", "ö", "ø", "ù", "ú",
                   "û", "ü", "ý", "þ", "ÿ", "µ">>
        upper == <<"A", "B", "C", "D", "E", "F", "G", "H", "I", "J", "K", "L", "M",
                   "N", "O", "P", "Q", "R", "S", "T", "U", "V", "W", "X", "Y", "Z",
                   "À", "Á", "Â", "Ã", "Ä", "Å", "Æ", "Ç", "È", "É", "Ê", "Ë", "Ì",
                   "Í", "Î", "Ï", "Ð", "Ñ", "Ò", "Ó", "Ô", "Õ", "Ö", "Ø", "Ù", "Ú",
                   "Û", "Ü", "Ý", "Þ", "U+0178", "U+039C">>
    IN IF \E i \in 1..Len(lower) : lower[i] = c
       THEN upper[CHOOSE i \in 1..Len(lower) : lower[i] = c]
       ELSE c

\* strings.ToUpper
ToUpper(s) == [i \in 1..Len(s) |-> UpperChar(s[i])]

PDKeys == {<<"P", "D", "1">>, <<"P", "D", "2">>, <<"P", "D", "3">>, <<"P", "D", "4">>}
PDAgentMap ==
    [k \in PDKeys |->
        CASE k = <<"P", "D", "1">> ->
               [ID |-> "59a26c67", Name |-> "Gracie", Email |-> "gracie@ltrealestateco.com",
                Zone |-> "PD1", ZoneGroup |-> <<>>]
          [] k = <<"P", "D", "2">> ->
               [ID |-> "dcb80b8a", Name |-> "Elizabeth", Email |-> "elizabeth@ltrealestateco.com",
                Zone |-> "PD2", ZoneGroup |-> <<>>]
          [] k = <<"P", "D", "3">> ->
               [ID |-> "4d6b75fd", Name |-> "Alexandra", Email |-> "alexandra@ltrealestateco.com",
                Zone |-> "PD3", ZoneGroup |-> <<>>]
          [] OTHER ->
               [ID |-> "4b8f5454", Name |-> "Brandi", Email |-> "brandi@ltrealestateco.com",
                Zone |-> "PD4", ZoneGroup |-> <<>>]]

\* the zero value of models.AgentInfo
AgentZero == [ID |-> "", Name |-> "", Email |-> "", Zone |-> "", ZoneGroup |-> <<>>]

MapAgent_LastMatch(groups) ==
    LET hits == {k \in 1..Len(groups) : ToUpper(TrimSpace(groups[k].Name)) \in PDKeys}
    IN IF hits = {} THEN [found |-> FALSE, agent |-> AgentZero]
       ELSE LET k == CHOOSE h \in hits : \A g \in hits : g <= h
            IN [found |-> TRUE,
                agent |-> [PDAgentMap[ToUpper(TrimSpace(groups[k].Name))]
                              EXCEPT !.ZoneGroup = groups[k].Name]]

\* MapAgent: found is FALSE for the nil result
RECURSIVE MapAgent(_)
MapAgent(groups) ==
    IF groups = <<>> THEN [found |-> FALSE, agent |-> AgentZero]
    ELSE LET name == ToUpper(TrimSpace(Head(groups).Name))
         IN IF name \in PDKeys
            THEN [found |-> TRUE,
                  agent |-> [PDAgentMap[name] EXCEPT !.ZoneGroup = Head(groups).Name]]
            ELSE MapAgent(Tail(groups))

\* ------------------------------------------------------- response building
PropertyZero == [ID |-> "", Name |-> "", Address |-> "", City |-> "", State |-> ""]
AvailabilityZero == [TotalSlotsAvailable |-> 0, DaysChecked |-> 0, Slots |-> <<>>]
\* the zero value of models.Response
ResponseZero ==
    [Success |-> FALSE, Property |-> PropertyZero, Agent |-> AgentZero,
     Availability |-> AvailabilityZero, Message |-> "", FormattedMsg |-> <<>>]

mapPropertyInfo(p) ==
    [ID |-> p.ID, Name |-> p.Name, Address |-> p.Address1, City |-> p.City, State |-> p.State]

limitSlots_TakesLast(slots, max) ==
    IF Len(slots) > max THEN SubSeq(slots, Len(slots) - max + 1, Len(slots)) ELSE slots

limitSlots(slots, max) == IF Len(slots) > max THEN SubSeq(slots, 1, max) ELSE slots

\* json.Marshal of models.PropertyInfo: address, city and state are omitempty
MarshalProperty(p) ==
    LET keys == {"id", "name"} \cup (IF p.Address # "" THEN {"address"} ELSE {})
                \cup (IF p.City # "" THEN {"city"} ELSE {})
                \cup (IF p.State # "" THEN {"state"} ELSE {})
    IN [k \in keys |-> CASE k = "id" -> p.ID [] k = "name" -> p.Name
                         [] k = "address" -> p.Address [] k = "city" -> p.City
                         [] OTHER -> p.State]

\* json.Marshal of models.AgentInfo: zone and zoneGroup are omitempty
MarshalAgent(a) ==
    LET keys == {"id", "name", "email"} \cup (IF a.Zone # "" THEN {"zone"} ELSE {})
                \cup (IF a.ZoneGroup # <<>> THEN {"zoneGroup"} ELSE {})
    IN [k \in keys |-> CASE k = "id" -> a.ID [] k = "name" -> a.Name
                         [] k = "email" -> a.Email [] k = "zone" -> a.Zone
                         [] OTHER -> a.ZoneGroup]

MarshalAvailability(v) ==
    [totalSlotsAvailable |-> v.TotalSlotsAvailable, daysChecked |-> v.DaysChecked,
     slots |-> v.Slots]

\* json.Marshal of models.Response
MarshalResponse(r) ==
    [success |-> r.Success, property |-> MarshalProperty(r.Property),
     agent |-> MarshalAgent(r.Agent), availability |-> MarshalAvailability(r.Availability),
     message |-> r.Message, formattedMessage |-> r.FormattedMsg]

errorResponse_Always200(status, msg) ==
    [StatusCode |-> 200, ContentType |-> "application/json", Body |-> [error |-> msg]]

errorResponse(status, msg) ==
    [StatusCode |-> status, ContentType |-> "application/json", Body |-> [error |-> msg]]

successResponse(r) ==
    [StatusCode |-> 200, ContentType |-> "application/json", Body |-> MarshalResponse(r)]

\* -------------------------------------------------------- message formatter
\* orderedDates after the loop over the slots, starting from seen: a date is
\* appended when the slots before it have not brought it in
RECURSIVE OrderedDates(_, _)
OrderedDates(slots, seen) ==
    IF slots = <<>> THEN seen
    ELSE LET before == OrderedDates(SubSeq(slots, 1, Len(slots) - 1), seen)
             date == slots[Len(slots)].Date
         IN IF date \in Range(before) THEN before ELSE Append(before, date)

\* slotsByDate[date]: the display times of the slots of that date, in order
RECURSIVE TimesOf(_, _)
TimesOf(slots, date) ==
    IF slots = <<>> THEN <<>>
    ELSE (IF Head(slots).Date = date THEN <<Head(slots).Time>> ELSE <<>>)
         \o TimesOf(Tail(slots), date)

\* the inner loop over the times of one date, from index i (0-based)
RECURSIVE TimeLines(_, _)
TimeLines(times, i) ==
    IF i >= Len(times) THEN <<>>
    ELSE IF i >= MaxTimesShown
         THEN <<"  - ...", ToString(Len(times) - MaxTimesShown), " more times available\n">>
         ELSE <<"  - ", times[i + 1], "\n">> \o TimeLines(times, i + 1)

RECURSIVE DateBlocks_NoDateLimit(_, _, _)
DateBlocks_NoDateLimit(slots, dates, count) ==
    IF count >= Len(dates) THEN <<>>
    ELSE <<dates[count + 1], ":\n">> \o TimeLines(TimesOf(slots, dates[count + 1]), 0)
         \o <<"\n">> \o DateBlocks_NoDateLimit(slots, dates, count + 1)

\* the loop over orderedDates, from index count (0-based)
RECURSIVE DateBlocks(_, _, _)
DateBlocks(slots, dates, count) ==
    IF count >= Len(dates) \/ count >= MaxDatesShown THEN <<>>
    ELSE <<dates[count + 1], ":\n">> \o TimeLines(TimesOf(slots, dates[count + 1]), 0)
         \o <<"\n">> \o DateBlocks(slots, dates, count + 1)

\* the dates the outer loop walks.  slotsByDate is a Go map, whose iteration
\* order (mapOrder) the runtime chooses; the loop ranges over the slice
\* orderedDates and only indexes the map.
RenderedDates_MapOrder(orderedDates, mapOrder) == mapOrder

RenderedDates(orderedDates, mapOrder) == orderedDates

\* formatMessage when the runtime iterates slotsByDate in the order mapOrder
formatMessageUnder(prop, agent, avail, totalGenerated, mapOrder) ==
    LET head == <<"PROPERTY: ", prop.Name, "\n", prop.Address, ", ", prop.City, ", ",
                  prop.State, "\n\n",
                  "LEASING AGENT: ", agent.Name, "\nEmail: ", agent.Email, "\n\n">>
        orderedDates == OrderedDates(avail.Slots, <<>>)
    IN IF Len(avail.Slots) = 0
       THEN head \o <<"SHOWING AVAILABILITY:\nNo available time slots found in the next ",
                      ToString(avail.DaysChecked), " days.\n",
                      agent.Name, "'s calendar is fully booked.\n\n",
                      "Please contact ", agent.Name, " directly at ", agent.Email,
                      " to schedule.">>
       ELSE head \o <<"AVAILABLE SHOWING TIMES:\n\n">>
            \o DateBlocks(avail.Slots, RenderedDates(orderedDates, mapOrder), 0)
            \o (IF Len(orderedDates) > MaxDatesShown
                THEN <<"...and ", ToString(Len(orderedDates) - MaxDatesShown),
                       " more days with availability\n">>
                ELSE <<>>)
            \o <<"\nContact ", agent.Name, " at ", agent.Email, " to schedule your showing.">>

Reverse(seq) == [k \in 1..Len(seq) |-> seq[Len(seq) + 1 - k]]

formatMessage_BookedWithoutContact(prop, agent, avail, totalGenerated) ==
    IF Len(avail.Slots) = 0
    THEN <<"PROPERTY: ", prop.Name, "\n", prop.Address, ", ", prop.City, ", ",
           prop.State, "\n\n",
           "LEASING AGENT: ", agent.Name, "\nEmail: ", agent.Email, "\n\n",
           "SHOWING AVAILABILITY:\nNo available time slots found in the next ",
           ToString(avail.DaysChecked), " days.\n",
           agent.Name, "'s calendar is fully booked.\n\n">>
    ELSE formatMessageUnder(prop, agent, avail, totalGenerated,
                            Reverse(OrderedDates(avail.Slots, <<>>)))

\* formatMessage as the handler calls it, under one iteration order of the map
formatMessage(prop, agent, avail, totalGenerated) ==
    formatMessageUnder(prop, agent, avail, totalGenerated,
                       Reverse(OrderedDates(avail.Slots, <<>>)))

\* ------------------------------------------------- the terminal responses
\* search failure (step 4)
PropertyNotFoundResponse(query) ==
    successResponse(
        [ResponseZero EXCEPT
           !.Message = "Could not find property matching query.",
           !.FormattedMsg = <<"I couldn't find a property matching '", query,
                              "'. Could you verify the address?">>])

DetailsUnavailableResponse_CarriesID(id) ==
    successResponse(
        [ResponseZero EXCEPT
           !.Property = [PropertyZero EXCEPT !.ID = id],
           !.Message = "Property found but details unavailable.",
           !.FormattedMsg = <<"I found the property but couldn't access its details right now.">>])

\* property-detail failure (step 5); the identifier is logged, not returned
DetailsUnavailableResponse(id) ==
    successResponse(
        [ResponseZero EXCEPT
           !.Message = "Property found but details unavailable.",
           !.FormattedMsg = <<"I found the property but couldn't access its details right now.">>])

\* group-fetch failure (step 6)
GroupsFailedResponse(p) ==
    successResponse(
        [ResponseZero EXCEPT
           !.Property = mapPropertyInfo(p),
           !.Message = "Could not determine agent.",
           !.FormattedMsg = <<"I have the details for ", p.Address1,
                              ", but I'm having trouble finding the assigned agent.">>])

NoAgentResponse_SameAsFetchError(p) == GroupsFailedResponse(p)

\* MapAgent returned nil (step 7)
NoAgentResponse(p) ==
    successResponse(
        [ResponseZero EXCEPT
           !.Property = mapPropertyInfo(p),
           !.Message = "No leasing agent assigned (No PD group).",
           !.FormattedMsg = <<"I checked ", p.Address1,
                              ", but there doesn't seem to be a leasing agent assigned to it yet.">>])

\* credential failure (step 8)
TokenFailedResponse(p, a) ==
    successResponse(
        [ResponseZero EXCEPT
           !.Property = mapPropertyInfo(p),
           !.Agent = a,
           !.Message = "Agent calendar access unavailable.",
           !.FormattedMsg = <<"I'd love to schedule a viewing for ", p.Address1,
                              ", but I can't access ", a.Name,
                              "'s calendar right now. Please email them at ", a.Email, ".">>])

CalendarFailedResponse_NoAgent(p, a) ==
    successResponse(
        [ResponseZero EXCEPT
           !.Property = mapPropertyInfo(p),
           !.Message = "Failed to read calendar.",
           !.FormattedMsg = <<"I'm having trouble checking ", a.Name,
                              "'s availability. Please contact them directly.">>])

\* calendar failure (step 9)
CalendarFailedResponse(p, a) ==
    successResponse(
        [ResponseZero EXCEPT
           !.Property = mapPropertyInfo(p),
           !.Agent = a,
           !.Message = "Failed to read calendar.",
           !.FormattedMsg = <<"I'm having trouble checking ", a.Name,
                              "'s availability. Please contact them directly at ",
                              a.Email, ".">>])

SuccessResult_FailsWhenFullyBooked(p, a, busy, referenceTime) ==
    LET gen == GenerateAvailableSlots(busy, referenceTime)
        avail == [TotalSlotsAvailable |-> Len(gen.availableSlots),
                  DaysChecked |-> gen.daysChecked,
                  Slots |-> limitSlots(gen.availableSlots, SlotCap)]
    IN successResponse(
           [Success |-> Len(gen.availableSlots) > 0, Property |-> mapPropertyInfo(p),
            Agent |-> a, Availability |-> avail, Message |-> "Success",
            FormattedMsg |-> formatMessage(mapPropertyInfo(p), a, avail, gen.totalSlots)])

\* steps 10 and 11: slot generation, the availability, the formatted message
\* and the success response
SuccessResult(p, a, busy, referenceTime) ==
    LET gen == GenerateAvailableSlots(busy, referenceTime)
        avail == [TotalSlotsAvailable |-> Len(gen.availableSlots),
                  DaysChecked |-> gen.daysChecked,
                  Slots |-> limitSlots(gen.availableSlots, SlotCap)]
    IN successResponse(
           [Success |-> TRUE, Property |-> mapPropertyInfo(p), Agent |-> a,
            Availability |-> avail, Message |-> "Success",
            FormattedMsg |-> formatMessage(mapPropertyInfo(p), a, avail, gen.totalSlots)])

\* ------------------------------------------------------------ input events
\* A JSON document as the handler's json.Unmarshal calls see it: json is FALSE
\* for text that is not JSON, typed is FALSE when Query or Phone is not a JSON
\* string, vapi is FALSE when message or a member of it is not of the JSON
\* kind models.VAPIWebhookPayload declares.  Type, ToolCalls and Messages are
\* message.type, message.toolCalls and message.artifact.messages.  Phone is
\* only logged and is left out.
Meta(a, p) == [Address1 |-> a, PropertyId |-> p]
\* an artifact message: HasResult is FALSE when the message has no parsed
\* result (msg.Result is nil), Results are the metadata of its results
NoResult == [Role |-> "tool_call_result", HasResult |-> FALSE, Results |-> <<>>]
ToolResult(role, results) == [Role |-> role, HasResult |-> TRUE, Results |-> results]
ArtifactLists ==
    {<<>>,
     <<NoResult>>,
     <<ToolResult("tool_call_result", <<Meta("A1", "P1")>>)>>,
     <<ToolResult("assistant", <<Meta("A1", "P1")>>)>>,
     <<ToolResult("tool_call_result", <<Meta("", "P1"), Meta("A1", "")>>)>>,
     <<NoResult,
       ToolResult("tool_call_result", <<Meta("", "P9"), Meta("A1", "P1"), Meta("A2", "P2")>>)>>}
QueryValues == {"", "828 main"}
ToolCallLists ==
    {<<>>, <<[Query |-> "828 main"]>>, <<[Query |-> ""], [Query |-> "828 main"]>>}

NotJSON == [json |-> FALSE, typed |-> FALSE, vapi |-> FALSE, Query |-> "", Type |-> "",
            ToolCalls |-> <<>>, Messages |-> <<>>]
PlainDocs ==
    {[json |-> TRUE, typed |-> TRUE, vapi |-> TRUE, Query |-> q, Type |-> "",
      ToolCalls |-> <<>>, Messages |-> <<>>] : q \in QueryValues}
    \cup {[json |-> TRUE, typed |-> FALSE, vapi |-> TRUE, Query |-> "", Type |-> "",
           ToolCalls |-> <<>>, Messages |-> <<>>]}
VapiDocs ==
    {[json |-> TRUE, typed |-> TRUE, vapi |-> TRUE, Query |-> "", Type |-> "tool-calls",
      ToolCalls |-> t, Messages |-> m] : t \in ToolCallLists, m \in ArtifactLists}
\* the documents of the model; the last are tool-calls messages with a member
\* of the wrong JSON kind (the arguments of the tool call sent as a string),
\* beside a top-level Query or without one
Docs ==
    {NotJSON} \cup PlainDocs \cup VapiDocs
    \cup {[json |-> TRUE, typed |-> TRUE, vapi |-> FALSE, Query |-> q, Type |-> "tool-calls",
           ToolCalls |-> <<[Query |-> "828 main"]>>, Messages |-> <<>>] : q \in QueryValues}

\* an event: the top-level document and, when its body field is a non-empty
\* string, the document that string holds
Events ==
    {[doc |-> d, hasBody |-> FALSE, body |-> NotJSON] : d \in Docs}
    \cup {[doc |-> d, hasBody |-> TRUE, body |-> b] :
            d \in {x \in PlainDocs : x.typed /\ x.Query = ""}, b \in Docs}
    \cup {[doc |-> d, hasBody |-> TRUE, body |-> b] :
            d \in {x \in PlainDocs : x.typed /\ x.Query # ""},
            b \in {NotJSON} \cup PlainDocs}

\* os.Getenv: required is TRUE when the five required variables are all set
Configs == [required : BOOLEAN, openaiKey : BOOLEAN]

\* json.Unmarshal into GenericEvent or models.Request fails on non-JSON text
\* and on a Query or Phone that is not a string
UnmarshalTyped(d) == d.json /\ d.typed
\* json.Unmarshal into models.VAPIWebhookPayload fails on non-JSON text and on
\* a message whose members are not of the JSON kinds the payload declares
UnmarshalVapi(d) == d.json /\ d.vapi

RECURSIVE ResultCandidates_EitherField(_, _)
ResultCandidates_EitherField(results, i) ==
    IF i > Len(results) THEN <<>>
    ELSE (IF results[i].Address1 # "" \/ results[i].PropertyId # ""
          THEN <<[Index |-> i - 1, Address1 |-> results[i].Address1,
                  PropertyId |-> results[i].PropertyId]>>
          ELSE <<>>) \o ResultCandidates_EitherField(results, i + 1)

\* the candidates of one tool_call_result message: the results that have both
\* an address and a property id
RECURSIVE ResultCandidates(_, _)
ResultCandidates(results, i) ==
    IF i > Len(results) THEN <<>>
    ELSE (IF results[i].Address1 # "" /\ results[i].PropertyId # ""
          THEN <<[Index |-> i - 1, Address1 |-> results[i].Address1,
                  PropertyId |-> results[i].PropertyId]>>
          ELSE <<>>) \o ResultCandidates(results, i + 1)

RECURSIVE CollectCandidates(_)
CollectCandidates(msgs) ==
    IF msgs = <<>> THEN <<>>
    ELSE (IF Head(msgs).Role = "tool_call_result" /\ Head(msgs).HasResult
          THEN ResultCandidates(Head(msgs).Results, 1)
          ELSE <<>>) \o CollectCandidates(Tail(msgs))

ShouldMatch_NoQueryCheck(vapi, cands, hasKey, query) ==
    vapi /\ Len(cands) > 0 /\ hasKey

\* the guard of the language-matching step, inside the tool-calls branch
ShouldMatch(vapi, cands, hasKey, query) ==
    vapi /\ Len(cands) > 0 /\ hasKey /\ query # ""

\* Event parsing of HandleRequest (step 2).  failed is TRUE on an early
\* return, with the 400 message; otherwise query and candidates are set and
\* vapi tells whether the tool-calls branch was taken.
ParseEvent(ev) ==
    LET bodyToParse == IF ev.hasBody THEN ev.body ELSE ev.doc
        fail(m) == [failed |-> TRUE, msg |-> m, query |-> "", candidates |-> <<>>,
                    vapi |-> FALSE]
        ok(q, c, v) == [failed |-> FALSE, msg |-> "", query |-> q, candidates |-> c,
                        vapi |-> v]
    IN IF ~UnmarshalTyped(ev.doc) THEN fail("Invalid event format")
       ELSE IF UnmarshalVapi(bodyToParse) /\ bodyToParse.Type = "tool-calls"
       THEN ok(IF Len(bodyToParse.ToolCalls) > 0 THEN bodyToParse.ToolCalls[1].Query ELSE "",
               CollectCandidates(bodyToParse.Messages), TRUE)
       ELSE IF ev.hasBody
       THEN IF ~UnmarshalTyped(ev.body) THEN fail("Invalid JSON in body")
            ELSE ok(ev.body.Query, <<>>, FALSE)
       ELSE IF ev.doc.Query # ""
       THEN ok(ev.doc.Query, <<>>, FALSE)
       ELSE IF ~UnmarshalTyped(ev.doc) THEN fail("Invalid request format")
            ELSE ok(ev.doc.Query, <<>>, FALSE)

\* --------------------------------------------------- language-model answer
DigitValue(c) ==
    CASE c = "0" -> 0 [] c = "1" -> 1 [] c = "2" -> 2 [] c = "3" -> 3 [] c = "4" -> 4
      [] c = "5" -> 5 [] c = "6" -> 6 [] c = "7" -> 7 [] c = "8" -> 8 [] OTHER -> 9
IsDigit(c) == c \in {"0", "1", "2", "3", "4", "5", "6", "7", "8", "9"}

RECURSIVE ScanDigits(_, _)
ScanDigits(s, acc) ==
    IF s # <<>> /\ IsDigit(Head(s)) THEN ScanDigits(Tail(s), acc * 10 + DigitValue(Head(s)))
    ELSE acc

\* strconv.ParseInt(tok, 10, 64) reports a range error: the digits are beyond
\* 9223372036854775807, or beyond 9223372036854775808 behind a minus sign
OutOfInt64(digits, neg) ==
    LET zeros == CHOOSE k \in 0..(Len(digits) - 1) :
                    /\ \A i \in 1..k : digits[i] = "0"
                    /\ k = Len(digits) - 1 \/ digits[k + 1] # "0"
        d == SubSeq(digits, zeros + 1, Len(digits))
        lim == <<9, 2, 2, 3, 3, 7, 2, 0, 3, 6, 8, 5, 4, 7, 7, 5, 8, 0, IF neg THEN 8 ELSE 7>>
    IN \/ Len(d) > Len(lim)
       \/ /\ Len(d) = Len(lim)
          /\ \E i \in 1..Len(d) :
               /\ DigitValue(d[i]) > lim[i]
               /\ \A j \in 1..(i - 1) : DigitValue(d[j]) = lim[j]

\* ss.SkipSpace with nlIsSpace false, as Sscanf runs it before a verb: white
\* space is skipped, a carriage return before a line feed too, and a line feed
\* is the error "unexpected newline"
RECURSIVE SkipSpace(_)
SkipSpace(s) ==
    IF s = <<>> THEN [err |-> FALSE, rest |-> s]
    ELSE IF Head(s) = "\r" /\ Len(s) > 1 /\ s[2] = "\n" THEN SkipSpace(Tail(s))
    ELSE IF Head(s) = "\n" THEN [err |-> TRUE, rest |-> s]
    ELSE IF IsSpace(Head(s)) THEN SkipSpace(Tail(s))
    ELSE [err |-> FALSE, rest |-> s]

\* fmt.Sscanf(content, "%d", &matchedIndex): skip leading white space, accept
\* a sign, then take the run of decimal digits (at least one) and read it as
\* an int of 64 bits in base 10; what follows the run, an underscore
\* included, is left unread.  (The value is computed with the model checker's
\* integers, which end at 2^31 - 1.)
Sscanf(content) ==
    LET skipped == SkipSpace(content)
        s == skipped.rest
        signed == s # <<>> /\ Head(s) \in {"+", "-"}
        neg == signed /\ Head(s) = "-"
        t == IF signed THEN Tail(s) ELSE s
        n == CHOOSE k \in 0..Len(t) :
                /\ \A i \in 1..k : IsDigit(t[i])
                /\ k = Len(t) \/ ~IsDigit(t[k + 1])
        tok == SubSeq(t, 1, n)
    IN IF skipped.err \/ tok = <<>> \/ OutOfInt64(tok, neg)
       THEN [err |-> TRUE, value |-> 0]
       ELSE [err |-> FALSE,
             value |-> IF neg THEN 0 - ScanDigits(tok, 0) ELSE ScanDigits(tok, 0)]

AnswerContents ==
    {<<"0">>, <<"1">>, <<"2">>, <<"-", "1">>, <<" ", "1">>, <<"\n", "1">>, <<"\r", "1">>,
     <<"1", "x">>, <<"1", "_">>, <<"x">>, <<>>}

\* what the chat-completions call can produce: a transport error, a status,
\* an undecodable body, or a list of choices
OpenAIOutcomes ==
    {[doErr |-> TRUE, status |-> 0, decodeErr |-> FALSE, choices |-> <<>>],
     [doErr |-> FALSE, status |-> 429, decodeErr |-> FALSE, choices |-> <<>>],
     [doErr |-> FALSE, status |-> 200, decodeErr |-> TRUE, choices |-> <<>>],
     [doErr |-> FALSE, status |-> 200, decodeErr |-> FALSE, choices |-> <<>>]}
    \cup {[doErr |-> FALSE, status |-> 200, decodeErr |-> FALSE, choices |-> <<c>>] :
            c \in AnswerContents}

\* MatchAddressToQuery after the rate-limiter wait: the request and the
\* interpretation of its answer; err is the error text, "" for nil
MatchAnswer(candidates, out) ==
    LET fail(e) == [err |-> e, id |-> ""]
    IN IF out.doErr THEN fail("transport error")
       ELSE IF out.status # 200 THEN fail("OpenAI API error")
       ELSE IF out.decodeErr THEN fail("decode error")
       ELSE IF Len(out.choices) = 0 THEN fail("no response from OpenAI")
       ELSE LET scan == Sscanf(out.choices[1])
            IN IF scan.err THEN fail("failed to parse OpenAI response")
               ELSE IF scan.value < 0 \/ scan.value >= Len(candidates)
               THEN fail("no matching address found")
               ELSE [err |-> "", id |-> candidates[scan.value + 1].PropertyId]

\* ------------------------------------------------ collaborators' responses
At(day, hour, min, ticks) == day * Day + hour * Hour + min * Minute + ticks
\* time.Now(): Monday 08:00, Monday 08:00 and a fraction of a minute,
\* Thursday 16:10, Friday 14:00, Saturday 10:00
RefTimes == {At(0, 8, 0, 0), At(0, 8, 0, 1), At(3, 16, 10, 0), At(4, 14, 0, 0),
             At(5, 10, 0, 0)}
BusyPool ==
    <<[Start |-> At(0, 10, 0, 0), End |-> At(0, 10, 30, 0)],
      [Start |-> At(4, 15, 0, 0), End |-> At(4, 15, 15, 0)],
      [Start |-> At(0, 0, 0, 0), End |-> At(14, 0, 0, 0)]>>
\* busy lists: up to MaxBusy intervals of the pool, in pool order
BusyLists ==
    {[i \in 1..Len(idx) |-> BusyPool[idx[i]]] :
        idx \in {x \in UNION {[1..n -> 1..Len(BusyPool)] : n \in 0..MaxBusy} :
                    \A i \in 1..(Len(x) - 1) : x[i] < x[i + 1]}}

GroupNames == {<<"o", "p", "s">>, <<" ", "p", "d", "1", " ">>}
GroupLists ==
    {[i \in 1..Len(names) |-> [ID |-> "g", Name |-> names[i]]] :
        names \in UNION {[1..n -> GroupNames] : n \in 0..MaxGroups}}

AppFolioPropertyZero ==
    [ID |-> "", Name |-> "", Address1 |-> "", City |-> "", State |-> "",
     PropertyGroupIds |-> <<>>]
Properties ==
    {[ID |-> "P1", Name |-> "Maple Court", Address1 |-> "828 Main St", City |-> "Portland",
      State |-> "OR", PropertyGroupIds |-> <<"g1", "g2">>],
     [ID |-> "P2", Name |-> "Oak House", Address1 |-> "", City |-> "", State |-> "",
      PropertyGroupIds |-> <<>>]}

SearchOutcomes == {[err |-> TRUE, id |-> ""], [err |-> FALSE, id |-> "P7"]}
PropertyOutcomes ==
    {[err |-> TRUE, prop |-> AppFolioPropertyZero]}
    \cup {[err |-> FALSE, prop |-> q] : q \in Properties}
GroupOutcomes ==
    {[err |-> TRUE, groups |-> <<>>]} \cup {[err |-> FALSE, groups |-> g] : g \in GroupLists}
TokenOutcomes == {[err |-> TRUE, token |-> ""], [err |-> FALSE, token |-> "tok"]}
BusyOutcomes ==
    {[err |-> TRUE, busy |-> <<>>]} \cup {[err |-> FALSE, busy |-> b] : b \in BusyLists}

\* ------------------------------------------------------------- rate limiter
\* rate.Every(time.Minute / OpenAIRequestsPerMinute): seconds between two tokens
RefillSeconds == 60 \div OpenAIRequestsPerMinute
\* Tokens are counted in parts: a clock tick refills one part and a request costs
\* TicksPerRefill parts, so that a whole token is refilled every RefillSeconds.
TokenParts == TicksPerRefill
BucketParts == OpenAIBurstSize * TokenParts
Invocations == 1..NumInvocations

\* The limiter is rate.Limiter of golang.org/x/time/rate: tokens is its token
\* count, which a reservation lowers at once and which is negative while
\* callers wait for tokens reserved ahead; lastDue is the time (in ticks from
\* now, 0 when it is past) of the latest event the limiter has granted.
\* the package variable limiter before once.Do has run
NoLimiter == [created |-> 0, tokens |-> 0, lastDue |-> 0]
\* rate.NewLimiter(every, OpenAIBurstSize): a full bucket
NewLimiter(l) == [created |-> l.created + 1, tokens |-> BucketParts, lastDue |-> 0]

GetOpenAILimiter_NoOnce(l) == NewLimiter(l)

\* once.Do(func() { limiter = rate.NewLimiter(...) }); return limiter
GetOpenAILimiter(l) == IF l.created = 0 THEN NewLimiter(l) ELSE l

\* Limiter.reserveN for one token: the token is taken at once and the caller
\* may act when the debt, if any, is refilled (one part a tick)
Reserve(l) ==
    LET tokens == l.tokens - TokenParts
    IN [l EXCEPT !.tokens = tokens, !.lastDue = IF tokens < 0 THEN 0 - tokens ELSE 0]

\* Reservation.Cancel of a reservation due in `due` ticks: the token comes
\* back less what later reservations were granted on top of it, and the
\* latest event is moved back when the reservation was the latest
CancelReservation(l, due) ==
    LET restore == TokenParts - (l.lastDue - due)
        tokens == l.tokens + restore
    IN IF restore <= 0 THEN l
       ELSE [l EXCEPT !.tokens = IF tokens > BucketParts THEN BucketParts ELSE tokens,
                      !.lastDue = IF due = l.lastDue /\ due - TokenParts >= 0
                                  THEN due - TokenParts ELSE @]

\* the passing of one clock tick inside the limiter: one part more, up to the burst
Refill(l) ==
    IF l.created = 0 THEN l
    ELSE [l EXCEPT !.tokens = IF l.tokens < BucketParts THEN l.tokens + 1 ELSE BucketParts,
                   !.lastDue = IF l.lastDue > 0 THEN l.lastDue - 1 ELSE 0]

\* s without its element i
Without(s, i) == SelectSeq(s, LAMBDA x : x # i)

\* an invocation that is not inside MatchAddressToQuery
InvIdle == [pc |-> "idle", cancelled |-> FALSE, waitErr |-> FALSE, due |-> 0]

\* -------------------------------------------------------------------- state
VARIABLES
    pc,                   \* position of the invocation inside HandleRequest
    cfg,                  \* the environment configuration read in step 1
    event,                \* the raw event
    req,                  \* models.Request
    candidates,           \* address candidates collected from the event
    extractedPropertyID,  \* the identifier the language model matched, or ""
    propID, prop, groups, agent, token, now, busySlots,
    calls,                \* the collaborators invoked so far, in order
    resp,                 \* the LambdaResponse returned
    err,                  \* the Go error returned
    generated             \* what GenerateAvailableSlots returned to the handler

\* the process-wide rate limiter and the invocations that contend for it
VARIABLES
    limiter,              \* package variables limiter and once of ratelimit
    waiting,              \* invocations blocked in limiter.Wait, in arrival order
    inv,                  \* each concurrent invocation inside MatchAddressToQuery
    admitted              \* age in seconds of each recent admitted request

handlerVars == <<pc, cfg, event, req, candidates, extractedPropertyID, propID, prop,
                 groups, agent, token, now, busySlots, calls, resp, err, generated>>
limiterVars == <<limiter, waiting, inv, admitted>>

\* the agent table as a package variable, and concurrent calls of MapAgent
VARIABLES
    agentTable,           \* the package variable PDAgentMap
    mapInv                \* each concurrent call of MapAgent

\* formatMessage called on its own
VARIABLES
    fmtAvail,             \* the availability handed to formatMessage
    fmtOut                \* what the calls of formatMessage returned, in order

mapperVars == <<agentTable, mapInv>>
formatVars == <<fmtAvail, fmtOut>>
vars == <<handlerVars, limiterVars, mapperVars, formatVars>>

NoResponse == [StatusCode |-> 0, ContentType |-> "", Body |-> <<>>]
\* a collaborator invocation: its argument and the error it returned ("" for nil)
Call(fn, arg, error) == [fn |-> fn, arg |-> arg, ok |-> error = "", error |-> error]
ErrorText(failed, text) == IF failed THEN text ELSE ""

\* the zero values of availableSlots, daysChecked and totalSlots
NoSlots == [availableSlots |-> <<>>, daysChecked |-> 0, totalSlots |-> 0]

LimiterInit ==
    /\ limiter = NoLimiter
    /\ waiting = <<>>
    /\ inv = [i \in Invocations |-> InvIdle]
    /\ admitted = <<>>

\* a call of MapAgent that has not started
MapIdle == [pc |-> "idle", groups |-> <<>>, k |-> 0, agent |-> AgentZero]

TableInit ==
    /\ agentTable = PDAgentMap
    /\ mapInv = [i \in Invocations |-> MapIdle]

FormatIdle ==
    /\ fmtAvail = AvailabilityZero
    /\ fmtOut = <<>>

Init ==
    /\ LimiterInit
    /\ TableInit
    /\ FormatIdle
    /\ generated = NoSlots
    /\ pc = "idle"
    /\ cfg = [required |-> FALSE, openaiKey |-> FALSE]
    /\ event = [doc |-> NotJSON, hasBody |-> FALSE, body |-> NotJSON]
    /\ req = [Query |-> ""]
    /\ candidates = <<>>
    /\ extractedPropertyID = ""
    /\ propID = ""
    /\ prop = AppFolioPropertyZero
    /\ groups = <<>>
    /\ agent = AgentZero
    /\ token = ""
    /\ now = 0
    /\ busySlots = <<>>
    /\ calls = <<>>
    /\ resp = NoResponse
    /\ err = "nil"

\* return resp, nil
Return(r) == pc' = "done" /\ resp' = r /\ err' = "nil"

\* HandleRequest, steps 1 and 2: configuration check, event parsing and
\* collection of the address candidates
Invoke ==
    /\ pc = "idle"
    /\ \E c \in Configs, ev \in Events :
        LET parsed == ParseEvent(ev)
        IN /\ cfg' = c
           /\ event' = ev
           /\ IF ~c.required
              THEN /\ Return(errorResponse(500, "Missing configuration"))
                   /\ UNCHANGED <<req, candidates>>
              ELSE IF parsed.failed
              THEN /\ Return(errorResponse(400, parsed.msg))
                   /\ UNCHANGED <<req, candidates>>
              ELSE /\ req' = [Query |-> parsed.query]
                   /\ candidates' = parsed.candidates
                   /\ pc' = IF ShouldMatch(parsed.vapi, parsed.candidates, c.openaiKey,
                                           parsed.query)
                            THEN "match" ELSE "validate"
                   /\ UNCHANGED <<resp, err>>
    /\ UNCHANGED <<extractedPropertyID, propID, prop, groups, agent, token, now, busySlots,
                   calls>>
    /\ UNCHANGED <<generated, limiterVars, mapperVars, formatVars>>

MatchWait_AbortsOnWaitError ==
    /\ pc = "match"
    /\ \E waitErr \in BOOLEAN :
        /\ calls' = Append(calls, Call("WaitForOpenAI", req.Query,
                                       ErrorText(waitErr, "rate limited")))
        /\ limiter' = IF waitErr THEN GetOpenAILimiter(limiter)
                      ELSE Reserve(GetOpenAILimiter(limiter))
        /\ IF waitErr
           THEN Return(errorResponse(500, "rate limited"))
           ELSE pc' = "request" /\ UNCHANGED <<resp, err>>
    /\ UNCHANGED <<cfg, event, req, candidates, extractedPropertyID, propID, prop, groups,
                   agent, token, now, busySlots>>
    /\ UNCHANGED <<generated, waiting, inv, admitted, mapperVars, formatVars>>

\* MatchAddressToQuery up to the rate limiter.  WaitForOpenAI gets the
\* process-wide limiter, creating it on the first call, and limiter.Wait
\* returns an error when the context is done, or takes a token and returns nil
\* (in the one invocation of a fresh process the bucket is full: no wait).
MatchWait ==
    /\ pc = "match"
    /\ IF Len(candidates) = 0
       THEN pc' = "validate" /\ UNCHANGED <<calls, limiter>>
       ELSE \E waitErr \in BOOLEAN :
            /\ calls' = Append(calls, Call("WaitForOpenAI", req.Query,
                                           ErrorText(waitErr, "rate limited")))
            /\ limiter' = IF waitErr THEN GetOpenAILimiter(limiter)
                          ELSE Reserve(GetOpenAILimiter(limiter))
            /\ pc' = IF waitErr THEN "validate" ELSE "request"
    /\ UNCHANGED <<cfg, event, req, candidates, extractedPropertyID, propID, prop, groups,
                   agent, token, now, busySlots, resp, err>>
    /\ UNCHANGED <<generated, waiting, inv, admitted, mapperVars, formatVars>>

\* MatchAddressToQuery after the wait: the chat-completions request, and the
\* handler's use of the result
MatchRequest ==
    /\ pc = "request"
    /\ \E out \in OpenAIOutcomes :
        LET m == MatchAnswer(candidates, out)
        IN /\ calls' = Append(calls, Call("OpenAI", req.Query, m.err))
           /\ extractedPropertyID' = IF m.err # "" THEN extractedPropertyID ELSE m.id
    /\ pc' = "validate"
    /\ UNCHANGED <<cfg, event, req, candidates, propID, prop, groups, agent, token, now,
                   busySlots, resp, err>>
    /\ UNCHANGED <<generated, limiterVars, mapperVars, formatVars>>

\* the empty-query check
ValidateQuery ==
    /\ pc = "validate"
    /\ IF req.Query = ""
       THEN Return(errorResponse(400, "Query is required"))
       ELSE pc' = "resolve" /\ UNCHANGED <<resp, err>>
    /\ UNCHANGED <<cfg, event, req, candidates, extractedPropertyID, propID, prop, groups,
                   agent, token, now, busySlots, calls>>
    /\ UNCHANGED <<generated, limiterVars, mapperVars, formatVars>>

ResolvePropertyID_AlwaysSearch ==
    /\ pc = "resolve"
    /\ \E r \in SearchOutcomes :
        /\ calls' = Append(calls, Call("FindPropertyID", req.Query,
                                       ErrorText(r.err, "search failed")))
        /\ IF r.err
           THEN Return(PropertyNotFoundResponse(req.Query)) /\ UNCHANGED propID
           ELSE propID' = r.id /\ pc' = "details" /\ UNCHANGED <<resp, err>>
    /\ UNCHANGED <<cfg, event, req, candidates, extractedPropertyID, prop, groups, agent,
                   token, now, busySlots>>
    /\ UNCHANGED <<generated, limiterVars, mapperVars, formatVars>>

\* step 4: the matched identifier, or the search collaborator
ResolvePropertyID ==
    /\ pc = "resolve"
    /\ IF extractedPropertyID # ""
       THEN /\ propID' = extractedPropertyID
            /\ pc' = "details"
            /\ UNCHANGED <<calls, resp, err>>
       ELSE \E r \in SearchOutcomes :
            /\ calls' = Append(calls, Call("FindPropertyID", req.Query,
                                           ErrorText(r.err, "search failed")))
            /\ IF r.err
               THEN Return(PropertyNotFoundResponse(req.Query)) /\ UNCHANGED propID
               ELSE propID' = r.id /\ pc' = "details" /\ UNCHANGED <<resp, err>>
    /\ UNCHANGED <<cfg, event, req, candidates, extractedPropertyID, prop, groups, agent,
                   token, now, busySlots>>
    /\ UNCHANGED <<generated, limiterVars, mapperVars, formatVars>>

FetchPropertyDetails_ContinuesOnError ==
    /\ pc = "details"
    /\ \E r \in PropertyOutcomes :
        /\ calls' = Append(calls, Call("GetProperty", propID,
                                       ErrorText(r.err, "property fetch failed")))
        /\ prop' = r.prop
        /\ pc' = "groups"
        /\ UNCHANGED <<resp, err>>
    /\ UNCHANGED <<cfg, event, req, candidates, extractedPropertyID, propID, groups, agent,
                   token, now, busySlots>>
    /\ UNCHANGED <<generated, limiterVars, mapperVars, formatVars>>

\* step 5
FetchPropertyDetails ==
    /\ pc = "details"
    /\ \E r \in PropertyOutcomes :
        /\ calls' = Append(calls, Call("GetProperty", propID,
                                       ErrorText(r.err, "property fetch failed")))
        /\ IF r.err
           THEN Return(DetailsUnavailableResponse(propID)) /\ UNCHANGED prop
           ELSE prop' = r.prop /\ pc' = "groups" /\ UNCHANGED <<resp, err>>
    /\ UNCHANGED <<cfg, event, req, candidates, extractedPropertyID, propID, groups, agent,
                   token, now, busySlots>>
    /\ UNCHANGED <<generated, limiterVars, mapperVars, formatVars>>

\* step 6: GetPropertyGroups returns (nil, nil) without a request when the
\* property has no group ids
FetchPropertyGroups ==
    /\ pc = "groups"
    /\ \E r \in IF Len(prop.PropertyGroupIds) = 0
                THEN {[err |-> FALSE, groups |-> <<>>]} ELSE GroupOutcomes :
        /\ calls' = Append(calls, Call("GetPropertyGroups", prop.PropertyGroupIds,
                                       ErrorText(r.err, "group fetch failed")))
        /\ IF r.err
           THEN Return(GroupsFailedResponse(prop)) /\ UNCHANGED groups
           ELSE groups' = r.groups /\ pc' = "mapagent" /\ UNCHANGED <<resp, err>>
    /\ UNCHANGED <<cfg, event, req, candidates, extractedPropertyID, propID, prop, agent,
                   token, now, busySlots>>
    /\ UNCHANGED <<generated, limiterVars, mapperVars, formatVars>>

\* step 7
MapAgentStep ==
    /\ pc = "mapagent"
    /\ LET m == MapAgent(groups)
       IN /\ calls' = Append(calls, Call("MapAgent", groups, ErrorText(~m.found, "nil")))
          /\ IF ~m.found
             THEN Return(NoAgentResponse(prop)) /\ UNCHANGED agent
             ELSE agent' = m.agent /\ pc' = "token" /\ UNCHANGED <<resp, err>>
    /\ UNCHANGED <<cfg, event, req, candidates, extractedPropertyID, propID, prop, groups,
                   token, now, busySlots>>
    /\ UNCHANGED <<generated, limiterVars, mapperVars, formatVars>>

\* step 8
FetchCalendarCredential ==
    /\ pc = "token"
    /\ \E r \in TokenOutcomes :
        /\ calls' = Append(calls, Call("GetAccessToken", agent.Email,
                                       ErrorText(r.err, "token fetch failed")))
        /\ IF r.err
           THEN Return(TokenFailedResponse(prop, agent)) /\ UNCHANGED token
           ELSE token' = r.token /\ pc' = "busy" /\ UNCHANGED <<resp, err>>
    /\ UNCHANGED <<cfg, event, req, candidates, extractedPropertyID, propID, prop, groups,
                   agent, now, busySlots>>
    /\ UNCHANGED <<generated, limiterVars, mapperVars, formatVars>>

FetchBusyIntervals_SixDayWindow ==
    /\ pc = "busy"
    /\ \E n \in RefTimes, r \in BusyOutcomes :
        /\ now' = n
        /\ calls' = Append(calls,
                           Call("GetBusySlots",
                                [token |-> token, email |-> agent.Email, timeMin |-> n,
                                 timeMax |-> AddDays(n, 6)],
                                ErrorText(r.err, "calendar fetch failed")))
        /\ IF r.err
           THEN Return(CalendarFailedResponse(prop, agent)) /\ UNCHANGED busySlots
           ELSE busySlots' = r.busy /\ pc' = "generate" /\ UNCHANGED <<resp, err>>
    /\ UNCHANGED <<cfg, event, req, candidates, extractedPropertyID, propID, prop, groups,
                   agent, token>>
    /\ UNCHANGED <<generated, limiterVars, mapperVars, formatVars>>

\* step 9: now is read from the clock and the calendar is asked for
\* [now, now + 7 days)
FetchBusyIntervals ==
    /\ pc = "busy"
    /\ \E n \in RefTimes, r \in BusyOutcomes :
        /\ now' = n
        /\ calls' = Append(calls,
                           Call("GetBusySlots",
                                [token |-> token, email |-> agent.Email, timeMin |-> n,
                                 timeMax |-> AddDays(n, 7)],
                                ErrorText(r.err, "calendar fetch failed")))
        /\ IF r.err
           THEN Return(CalendarFailedResponse(prop, agent)) /\ UNCHANGED busySlots
           ELSE busySlots' = r.busy /\ pc' = "generate" /\ UNCHANGED <<resp, err>>
    /\ UNCHANGED <<cfg, event, req, candidates, extractedPropertyID, propID, prop, groups,
                   agent, token>>
    /\ UNCHANGED <<generated, limiterVars, mapperVars, formatVars>>

\* steps 10 and 11 and the final return
GenerateAvailability ==
    /\ pc = "generate"
    /\ calls' = calls \o <<Call("GenerateAvailableSlots", now, ""),
                           Call("formatMessage", now, "")>>
    /\ Return(SuccessResult(prop, agent, busySlots, now))
    /\ UNCHANGED <<cfg, event, req, candidates, extractedPropertyID, propID, prop, groups,
                   agent, token, now, busySlots>>
    /\ generated' = GenerateAvailableSlots(busySlots, now)
    /\ UNCHANGED <<limiterVars, mapperVars, formatVars>>

Next ==
    \/ Invoke
    \/ MatchWait
    \/ MatchRequest
    \/ ValidateQuery
    \/ ResolvePropertyID
    \/ FetchPropertyDetails
    \/ FetchPropertyGroups
    \/ MapAgentStep
    \/ FetchCalendarCredential
    \/ FetchBusyIntervals
    \/ GenerateAvailability

Spec == Init /\ [][Next]_vars

TypeOK ==
    /\ pc \in {"idle", "match", "request", "validate", "resolve", "details", "groups",
               "mapagent", "token", "busy", "generate", "done"}
    /\ err = "nil"

\* ------------------------------------- concurrent use of the rate limiter
\* Each invocation runs MatchAddressToQuery with a non-empty candidate list.
\* limiter.Wait is that of golang.org/x/time/rate: it reserves a token on entry
\* and sleeps until the token is due, or returns an error when the context is
\* done or its deadline is nearer than the wait.  due is the number of ticks
\* until the caller's token is due.
SetInv(i, r) == inv' = [inv EXCEPT ![i] = r]

\* WaitForOpenAI up to the blocking point: GetOpenAILimiter, then Wait finds the
\* context already done or its deadline too near (nothing is reserved), or
\* reserves a token and returns at once or starts to sleep
EnterWait(i) ==
    /\ inv[i].pc = "idle"
    /\ LET l == GetOpenAILimiter(limiter)
           wait == Reserve(l).lastDue
       IN \E ctxDone \in BOOLEAN :
            IF ctxDone \/ wait > MaxWaitTicks
            THEN /\ limiter' = l
                 /\ SetInv(i, [pc |-> "failed", cancelled |-> TRUE, waitErr |-> TRUE,
                               due |-> 0])
                 /\ UNCHANGED <<waiting, admitted>>
            ELSE /\ limiter' = Reserve(l)
                 /\ IF wait = 0
                    THEN /\ SetInv(i, [pc |-> "admitted", cancelled |-> FALSE,
                                       waitErr |-> FALSE, due |-> 0])
                         /\ admitted' = Append(admitted, 0)
                         /\ UNCHANGED waiting
                    ELSE /\ SetInv(i, [pc |-> "wait", cancelled |-> FALSE,
                                       waitErr |-> FALSE, due |-> wait])
                         /\ waiting' = Append(waiting, i)
                         /\ UNCHANGED admitted
    /\ UNCHANGED <<handlerVars, mapperVars, formatVars>>

\* the invocation's cancellation signal fires while it waits
Cancel(i) ==
    /\ inv[i].pc = "wait"
    /\ ~inv[i].cancelled
    /\ SetInv(i, [inv[i] EXCEPT !.cancelled = TRUE])
    /\ UNCHANGED <<limiter, waiting, admitted, handlerVars, mapperVars, formatVars>>

\* the timer of the reservation has fired and limiter.Wait returns nil (when the
\* context is done as well, the select statement picks either case; the wait
\* is over and its cancellation signal is of no more use to it)
Acquire(i) ==
    /\ inv[i].pc = "wait"
    /\ inv[i].due = 0
    /\ waiting' = Without(waiting, i)
    /\ admitted' = Append(admitted, 0)
    /\ SetInv(i, [inv[i] EXCEPT !.pc = "admitted", !.cancelled = FALSE])
    /\ UNCHANGED <<limiter, handlerVars, mapperVars, formatVars>>

WaitError_ContinuesToRequest(i) ==
    /\ inv[i].pc = "wait"
    /\ inv[i].cancelled
    /\ limiter' = IF inv[i].due > 0 THEN CancelReservation(limiter, inv[i].due) ELSE limiter
    /\ waiting' = Without(waiting, i)
    /\ SetInv(i, [inv[i] EXCEPT !.pc = "admitted", !.waitErr = TRUE, !.due = 0])
    /\ UNCHANGED <<admitted, handlerVars, mapperVars, formatVars>>

\* the context is done while the caller sleeps: limiter.Wait cancels the
\* reservation (nothing comes back once the token is due) and returns the
\* context's error; WaitForOpenAI wraps it and MatchAddressToQuery returns it
\* without building a request
WaitError(i) ==
    /\ inv[i].pc = "wait"
    /\ inv[i].cancelled
    /\ limiter' = IF inv[i].due > 0 THEN CancelReservation(limiter, inv[i].due) ELSE limiter
    /\ waiting' = Without(waiting, i)
    /\ SetInv(i, [inv[i] EXCEPT !.pc = "failed", !.waitErr = TRUE, !.due = 0])
    /\ UNCHANGED <<admitted, handlerVars, mapperVars, formatVars>>

\* the chat-completions request is sent
SendRequest(i) ==
    /\ inv[i].pc = "admitted"
    /\ SetInv(i, [inv[i] EXCEPT !.pc = "requested"])
    /\ UNCHANGED <<limiter, waiting, admitted, handlerVars, mapperVars, formatVars>>

\* MatchAddressToQuery returns; the slot serves the next invocation
Leave(i) ==
    /\ inv[i].pc \in {"failed", "requested"}
    /\ SetInv(i, InvIdle)
    /\ UNCHANGED <<limiter, waiting, admitted, handlerVars, mapperVars, formatVars>>

\* one clock tick: the bucket refills, the sleepers' tokens come nearer and the
\* remembered admissions age.  A goroutine whose timer or context has fired
\* runs before a whole tick passes.
Tick ==
    /\ \A i \in Invocations : inv[i].pc = "wait" => (inv[i].due > 0 /\ ~inv[i].cancelled)
    /\ limiter' = Refill(limiter)
    /\ inv' = [i \in Invocations |->
                 IF inv[i].pc = "wait" THEN [inv[i] EXCEPT !.due = @ - 1] ELSE inv[i]]
    /\ admitted' = SelectSeq([k \in 1..Len(admitted) |-> admitted[k] + 1],
                             LAMBDA a : a <= HorizonTicks)
    /\ UNCHANGED <<waiting, handlerVars, mapperVars, formatVars>>

LimiterNext ==
    \/ \E i \in Invocations : EnterWait(i)
    \/ \E i \in Invocations : Cancel(i)
    \/ \E i \in Invocations : Acquire(i)
    \/ \E i \in Invocations : WaitError(i)
    \/ \E i \in Invocations : SendRequest(i)
    \/ \E i \in Invocations : Leave(i)
    \/ Tick

LimiterSpec == Init /\ [][LimiterNext]_vars

\* Time passes (the clock ticks again and again, however often a return that
\* is due holds it up), and the Go scheduler runs every goroutine whose wait has
\* ended: a waiter whose token is due or whose context is done does return.
LimiterFairness ==
    /\ SF_vars(Tick)
    /\ \A i \in Invocations : WF_vars(Acquire(i)) /\ WF_vars(WaitError(i))

LimiterLiveSpec == LimiterSpec /\ LimiterFairness

LimiterTypeOK ==
    /\ limiter.created \in 0..1
    /\ limiter.tokens \in (0 - MaxWaitTicks)..BucketParts
    /\ limiter.lastDue \in 0..MaxWaitTicks
    /\ \A i \in Invocations :
        /\ inv[i].pc \in {"idle", "wait", "admitted", "requested", "failed"}
        /\ inv[i].due \in 0..MaxWaitTicks
    /\ Range(waiting) = {i \in Invocations : inv[i].pc = "wait"}

\* ------------------------------------------ the slot generator on its own
\* reference instants: every day of the week, at hours and minutes around the
\* buffer's and the working day's edges, at every tick of the minute
SlotRefHours == {7, 8, 13, 14, 15, 22}
SlotRefMinutes == {0, 1, 29, 30, 31, 59}
SlotRefTimes ==
    {At(d, h, m, k) : d \in 0..6, h \in SlotRefHours, m \in SlotRefMinutes,
                      k \in 0..(TicksPerMinute - 1)}
\* busy intervals: touching a candidate, Monday 09:30 to Tuesday 16:30, across
\* two candidates, Thursday 09:30 to Friday 15:00, of less than a minute, empty,
\* and everything
SlotBusyPool ==
    <<[Start |-> At(1, 9, 0, 0), End |-> At(1, 9, 30, 0)],
      [Start |-> At(0, 9, 30, 0), End |-> At(1, 16, 30, 0)],
      [Start |-> At(2, 9, 15, 0), End |-> At(2, 9, 45, 0)],
      [Start |-> At(3, 9, 30, 0), End |-> At(4, 15, 0, 0)],
      [Start |-> At(3, 11, 59, 1), End |-> At(3, 12, 0, 1)],
      [Start |-> At(4, 10, 15, 0), End |-> At(4, 10, 15, 0)],
      [Start |-> At(0, 0, 0, 0), End |-> At(14, 0, 0, 0)]>>
SlotBusyLists ==
    {[i \in 1..Len(idx) |-> SlotBusyPool[idx[i]]] :
        idx \in {x \in UNION {[1..n -> 1..Len(SlotBusyPool)] : n \in 0..MaxBusy} :
                    \A i \in 1..(Len(x) - 1) : x[i] < x[i + 1]}}

\* the handler at step 10, with the agent MapAgent gave for the group "PD1",
\* any clock reading and any calendar answer
SlotInit ==
    /\ LimiterInit
    /\ TableInit
    /\ FormatIdle
    /\ generated = NoSlots
    /\ pc = "generate"
    /\ cfg = [required |-> TRUE, openaiKey |-> FALSE]
    /\ event = [doc |-> NotJSON, hasBody |-> FALSE, body |-> NotJSON]
    /\ req = [Query |-> "828 main"]
    /\ candidates = <<>>
    /\ extractedPropertyID = ""
    /\ propID = "P7"
    /\ prop \in {q \in Properties : q.ID = "P1"}
    /\ groups = <<>>
    /\ agent = MapAgent(<<[ID |-> "g", Name |-> <<"P", "D", "1">>]>>).agent
    /\ token = "tok"
    /\ now \in SlotRefTimes
    /\ busySlots \in SlotBusyLists
    /\ calls = <<>>
    /\ resp = NoResponse
    /\ err = "nil"

SlotNext == GenerateAvailability

SlotSpec == SlotInit /\ [][SlotNext]_vars

\* ---------------------------------------------- the agent mapper on its own
\* group names: "ops", "PD2", "pd1", " Pd3" with a carriage return before and a
\* tab and a form feed behind, "PD5", "p d4", "pd1" with a Latin-1 letter behind
MapperGroupNames ==
    {<<"o", "p", "s">>, <<"P", "D", "2">>, <<"p", "d", "1">>,
     <<"\r", " ", "P", "d", "3", "\t", "\f">>, <<"P", "D", "5">>, <<"p", " ", "d", "4">>,
     <<"p", "d", "1", "é">>}
MapperGroupLists ==
    {[i \in 1..Len(names) |-> [ID |-> "g", Name |-> names[i]]] :
        names \in UNION {[1..n -> MapperGroupNames] : n \in 0..(MaxGroups + 1)}}

\* the handler at step 7, with any list of property groups
MapperInit ==
    /\ LimiterInit
    /\ TableInit
    /\ FormatIdle
    /\ generated = NoSlots
    /\ pc = "mapagent"
    /\ cfg = [required |-> TRUE, openaiKey |-> FALSE]
    /\ event = [doc |-> NotJSON, hasBody |-> FALSE, body |-> NotJSON]
    /\ req = [Query |-> "828 main"]
    /\ candidates = <<>>
    /\ extractedPropertyID = ""
    /\ propID = "P7"
    /\ prop \in {q \in Properties : q.ID = "P1"}
    /\ groups \in MapperGroupLists
    /\ agent = AgentZero
    /\ token = ""
    /\ now = 0
    /\ busySlots = <<>>
    /\ calls = <<>>
    /\ resp = NoResponse
    /\ err = "nil"

MapperNext == MapAgentStep

MapperSpec == MapperInit /\ [][MapperNext]_vars

\* ------------------------------------------ concurrent calls of MapAgent
\* the group lists of the callers: "ops" then "pd1"; " pd1 "; "ops"; "PD2" then "pd1"
TableGroupLists ==
    {[i \in 1..Len(names) |-> [ID |-> "g", Name |-> names[i]]] :
        names \in {<<(<<"o", "p", "s">>), (<<"p", "d", "1">>)>>,
                   <<(<<" ", "p", "d", "1", " ">>)>>,
                   <<(<<"o", "p", "s">>)>>,
                   <<(<<"P", "D", "2">>), (<<"p", "d", "1">>)>>}}

SetMapInv(i, r) == mapInv' = [mapInv EXCEPT ![i] = r]

\* MapAgent is called with a list of groups
CallMapAgent(i) ==
    /\ mapInv[i].pc = "idle"
    /\ \E g \in TableGroupLists : SetMapInv(i, [MapIdle EXCEPT !.pc = "loop", !.groups = g, !.k = 1])
    /\ UNCHANGED <<agentTable, handlerVars, limiterVars, formatVars>>

\* one iteration of the loop up to the lookup: agent, ok := PDAgentMap[name]
\* copies the table's value into the local variable agent; after the last
\* group MapAgent returns nil
LookupGroup(i) ==
    /\ mapInv[i].pc = "loop"
    /\ LET c == mapInv[i]
       IN IF c.k > Len(c.groups)
          THEN SetMapInv(i, [c EXCEPT !.pc = "nil"])
          ELSE LET name == ToUpper(TrimSpace(c.groups[c.k].Name))
               IN IF name \in DOMAIN agentTable
                  THEN SetMapInv(i, [c EXCEPT !.pc = "assign", !.agent = agentTable[name]])
                  ELSE SetMapInv(i, [c EXCEPT !.k = c.k + 1])
    /\ UNCHANGED <<agentTable, handlerVars, limiterVars, formatVars>>

AssignZoneGroup_ThroughTable(i) ==
    /\ mapInv[i].pc = "assign"
    /\ LET c == mapInv[i]
           name == ToUpper(TrimSpace(c.groups[c.k].Name))
       IN /\ agentTable' = [agentTable EXCEPT ![name].ZoneGroup = c.groups[c.k].Name]
          /\ SetMapInv(i, [c EXCEPT !.pc = "returned",
                                    !.agent = [c.agent EXCEPT !.ZoneGroup = c.groups[c.k].Name]])
    /\ UNCHANGED <<handlerVars, limiterVars, formatVars>>

\* agent.ZoneGroup = group.Name; return &agent: the assignment is to the local
\* copy, whose address is returned
AssignZoneGroup(i) ==
    /\ mapInv[i].pc = "assign"
    /\ LET c == mapInv[i]
       IN SetMapInv(i, [c EXCEPT !.pc = "returned",
                                 !.agent = [c.agent EXCEPT !.ZoneGroup = c.groups[c.k].Name]])
    /\ UNCHANGED <<agentTable, handlerVars, limiterVars, formatVars>>

\* the caller is done with the result
ForgetAgent(i) ==
    /\ mapInv[i].pc \in {"nil", "returned"}
    /\ SetMapInv(i, MapIdle)
    /\ UNCHANGED <<agentTable, handlerVars, limiterVars, formatVars>>

TableNext ==
    \/ \E i \in Invocations : CallMapAgent(i)
    \/ \E i \in Invocations : LookupGroup(i)
    \/ \E i \in Invocations : AssignZoneGroup(i)
    \/ \E i \in Invocations : ForgetAgent(i)

TableSpec == Init /\ [][TableNext]_vars

\* ---------------------------------------------- formatMessage on its own
\* formatMessage applied to availabilities of up to MaxFormatDates display
\* dates, up to MaxFormatCalls times on the same arguments; every call runs
\* under an iteration order of slotsByDate that the runtime chooses.
MaxFormatDates == 7
MaxFormatCalls == 2

\* how many times the dates offer, date after date (a pattern is repeated when
\* there are more dates): below, at and above the six that are shown
FormatCounts == <<<<1, 9, 6, 1, 7, 1, 1, 1>>, <<1>>, <<7, 2>>, <<6>>>>

\* the k-th half-hour slot of day d, counted from 09:00
FormatSlotAt(d, k) ==
    formatSlot(DateAt(AddDays(0, d), WorkStartHour, 0) + (k - 1) * SlotDuration,
               DateAt(AddDays(0, d), WorkStartHour, 0) + k * SlotDuration)

\* slot lists of n dates under the pattern FormatCounts[p]; latestFirst lists
\* the dates from the latest to the earliest
RECURSIVE FormatSlotsFrom(_, _, _, _)
FormatSlotsFrom(i, n, p, latestFirst) ==
    IF i > n THEN <<>>
    ELSE LET d == IF latestFirst THEN n - i ELSE i - 1
             c == FormatCounts[p][((i - 1) % Len(FormatCounts[p])) + 1]
         IN [k \in 1..c |-> FormatSlotAt(d, k)] \o FormatSlotsFrom(i + 1, n, p, latestFirst)

\* the lists handed to formatMessage, which limitSlots keeps within SlotCap;
\* revisit appends one more slot of the first date
FormatSlotLists ==
    LET lists == {FormatSlotsFrom(1, n, p, latestFirst) \o
                    (IF revisit
                     THEN <<FormatSlotAt(IF latestFirst THEN n - 1 ELSE 0, 10)>>
                     ELSE <<>>) :
                    n \in 1..MaxFormatDates, p \in 1..Len(FormatCounts),
                    latestFirst \in BOOLEAN, revisit \in BOOLEAN}
    IN {<<>>} \cup {slots \in lists : Len(slots) <= SlotCap}

FormatAvails ==
    {[TotalSlotsAvailable |-> Len(slots), DaysChecked |-> 5, Slots |-> slots] :
       slots \in FormatSlotLists}

Rotate(seq) == IF seq = <<>> THEN <<>> ELSE Append(Tail(seq), Head(seq))
\* iteration orders of a map with these keys
MapOrders(keys) == {keys, Reverse(keys), Rotate(keys)}

FormatInit ==
    /\ LimiterInit
    /\ TableInit
    /\ generated = NoSlots
    /\ pc = "format"
    /\ cfg = [required |-> TRUE, openaiKey |-> FALSE]
    /\ event = [doc |-> NotJSON, hasBody |-> FALSE, body |-> NotJSON]
    /\ req = [Query |-> "828 main"]
    /\ candidates = <<>>
    /\ extractedPropertyID = ""
    /\ propID = "P7"
    /\ prop \in {q \in Properties : q.ID = "P1"}
    /\ groups = <<>>
    /\ agent \in {MapAgent(<<[ID |-> "g", Name |-> n]>>).agent :
                    n \in {<<"P", "D", "1">>, <<" ", "p", "d", "4">>}}
    /\ token = ""
    /\ now = 0
    /\ busySlots = <<>>
    /\ calls = <<>>
    /\ resp = NoResponse
    /\ err = "nil"
    /\ fmtAvail \in FormatAvails
    /\ fmtOut = <<>>

\* one call formatMessage(mapPropertyInfo(prop), *agent, avail, totalSlots)
FormatCall ==
    /\ pc = "format"
    /\ Len(fmtOut) < MaxFormatCalls
    /\ \E mapOrder \in MapOrders(OrderedDates(fmtAvail.Slots, <<>>)) :
         fmtOut' = Append(fmtOut,
                          [mapOrder |-> mapOrder,
                           msg |-> formatMessageUnder(mapPropertyInfo(prop), agent, fmtAvail,
                                                      fmtAvail.TotalSlotsAvailable, mapOrder)])
    /\ UNCHANGED <<handlerVars, limiterVars, mapperVars, fmtAvail>>

FormatNext == FormatCall

FormatSpec == FormatInit /\ [][FormatNext]_vars

\* ------------------------------------------------------------------- claims
Done == pc = "done"
Body == resp.Body
CallsOf(fn) == {i \in 1..Len(calls) : calls[i].fn = fn}
Called(fn) == CallsOf(fn) # {}
Succeeded(fn) == \E i \in CallsOf(fn) : calls[i].ok
\* the invocation ended right after a failure of fn
FailedAt(fn) ==
    Done /\ calls # <<>> /\ calls[Len(calls)].fn = fn /\ ~calls[Len(calls)].ok
\* a terminal response of the pipeline, as opposed to a rejection before it
PipelineResponse == Done /\ "success" \in DOMAIN Body

Stages ==
    <<"FindPropertyID", "GetProperty", "GetPropertyGroups", "MapAgent", "GetAccessToken",
      "GetBusySlots", "GenerateAvailableSlots", "formatMessage">>
IsStageCall(c) == c.fn \in Range(Stages)
PipelineCalls == SelectSeq(calls, IsStageCall)
MatcherCalls == CallsOf("WaitForOpenAI") \cup CallsOf("OpenAI")

EmptyProperty == MarshalProperty(PropertyZero)
EmptyAgent == MarshalAgent(AgentZero)
EmptyAvailability == MarshalAvailability(AvailabilityZero)

\* C1: the collaborators are invoked in the order search, property details,
\* groups, agent mapping, credential, calendar, slot generation, message
\* formatting (the search being left out when an identifier was matched); a
\* stage is invoked only after every earlier one succeeded, and a failed stage
\* is the last call of the invocation.
C1_StrictStageOrder ==
    LET stageCalls == PipelineCalls
        skip == IF extractedPropertyID # "" THEN 1 ELSE 0
    IN /\ Len(stageCalls) + skip <= Len(Stages)
       /\ \A i \in 1..Len(stageCalls) : stageCalls[i].fn = Stages[i + skip]
       /\ \A i \in 1..(Len(stageCalls) - 1) : stageCalls[i].ok
       /\ (stageCalls # <<>> /\ ~stageCalls[Len(stageCalls)].ok) => Done

C1_Witness ==
    /\ Done
    /\ Len(PipelineCalls) = Len(Stages)
    /\ PipelineCalls[1].fn = "FindPropertyID"
    /\ Body.success

\* C2: a response that ends the invocation at the search failure or at the
\* property-detail failure has success false and empty property, agent and
\* availability.
C2_EarlyFailuresCarryNothing ==
    (FailedAt("FindPropertyID") \/ FailedAt("GetProperty")) =>
        /\ resp.StatusCode = 200
        /\ Body.success = FALSE
        /\ Body.property = EmptyProperty
        /\ Body.agent = EmptyAgent
        /\ Body.availability = EmptyAvailability

C2_Witness ==
    /\ FailedAt("GetProperty")
    /\ propID # ""
    /\ Body.property.id = ""

\* C3: when the credential fetch or the busy-interval fetch fails, the
\* response has success false, the resolved property and the mapped agent,
\* an empty availability, and a formatted message containing the agent's
\* email address.
C3_CalendarFailuresCarryPropertyAndAgent ==
    (FailedAt("GetAccessToken") \/ FailedAt("GetBusySlots")) =>
        /\ Body.success = FALSE
        /\ Body.property = MarshalProperty(mapPropertyInfo(prop))
        /\ Body.property.id = prop.ID /\ prop.ID # ""
        /\ Body.agent = MarshalAgent(MapAgent(groups).agent)
        /\ Body.agent.email # ""
        /\ Body.availability = EmptyAvailability
        /\ Body.agent.email \in Range(Body.formattedMessage)

C3_Witness ==
    /\ FailedAt("GetBusySlots")
    /\ Succeeded("GetAccessToken")
    /\ Body.agent.email = "gracie@ltrealestateco.com"

GroupFetchStatus == "Could not determine agent."
NoAgentStatus == "No leasing agent assigned (No PD group)."

\* C4: a group-fetch failure and a not-found result of MapAgent both end with
\* success false, the resolved property and an empty agent, and their status
\* and formatted messages tell the two outcomes apart.
C4_AgentFailuresCarryProperty ==
    /\ (FailedAt("GetPropertyGroups") \/ FailedAt("MapAgent")) =>
          /\ Body.success = FALSE
          /\ Body.property = MarshalProperty(mapPropertyInfo(prop))
          /\ Body.property.id = prop.ID /\ prop.ID # ""
          /\ Body.agent = EmptyAgent
    /\ FailedAt("GetPropertyGroups") =>
          /\ Body.message = GroupFetchStatus
          /\ \A q \in Properties :
                Body.formattedMessage # NoAgentResponse(q).Body.formattedMessage
    /\ FailedAt("MapAgent") =>
          /\ Body.message = NoAgentStatus
          /\ \A q \in Properties :
                Body.formattedMessage # GroupsFailedResponse(q).Body.formattedMessage

C4_Witness ==
    /\ FailedAt("MapAgent")
    /\ groups # <<>>
    /\ Body.property.id = "P1"

\* the six lookups of the pipeline all succeeded
AllLookupsSucceeded ==
    /\ extractedPropertyID # "" \/ Succeeded("FindPropertyID")
    /\ Succeeded("GetProperty")
    /\ Succeeded("GetPropertyGroups")
    /\ Succeeded("MapAgent")
    /\ Succeeded("GetAccessToken")
    /\ Succeeded("GetBusySlots")

\* C5: an invocation returns success true exactly when the property-id
\* resolution, the property-detail fetch, the group fetch, the agent mapping,
\* the credential fetch and the busy-interval fetch all succeeded; and once
\* the busy-interval fetch has succeeded, the invocation either has returned
\* the success response or is at the generation step, which yields the
\* success response for the busy set and the reference time it holds.
C5_SuccessIffAllLookupsSucceed ==
    /\ Done => ((PipelineResponse /\ Body.success) <=> AllLookupsSucceeded)
    /\ Succeeded("GetBusySlots") =>
          \/ /\ pc = "generate"
             /\ SuccessResult(prop, agent, busySlots, now).StatusCode = 200
             /\ SuccessResult(prop, agent, busySlots, now).Body.success
          \/ PipelineResponse /\ Body.success

C5_Witness ==
    /\ PipelineResponse
    /\ Body.success
    /\ Body.availability.totalSlotsAvailable = 0
    /\ Body.availability.daysChecked = 5

\* C6 as stated: every returned response carries no Go error, a success flag
\* and a human-readable message.
C6_Original_AlwaysSuccessFlag ==
    Done => /\ err = "nil"
            /\ "success" \in DOMAIN Body
            /\ "formattedMessage" \in DOMAIN Body

\* the event was accepted and its query is not empty: the pipeline is entered
EntersPipeline ==
    cfg.required /\ ~ParseEvent(event).failed /\ ParseEvent(event).query # ""

\* C6 (amended): every invocation returns no Go error and a well-formed
\* response.  A pipeline outcome has status 200 and a body with a success
\* flag, a status message and a non-empty formatted message; a rejection
\* before the pipeline (missing configuration, malformed event or body, empty
\* query) has status 500 or 400 and a body that holds only a non-empty error
\* message, without a success flag.
C6_WellFormedResponse ==
    Done =>
        /\ err = "nil"
        /\ resp.ContentType = "application/json"
        /\ IF EntersPipeline
           THEN /\ resp.StatusCode = 200
                /\ DOMAIN Body = {"success", "property", "agent", "availability", "message",
                                  "formattedMessage"}
                /\ Body.success \in BOOLEAN
                /\ Body.message # ""
                /\ Body.formattedMessage # <<>>
           ELSE /\ resp.StatusCode = (IF cfg.required THEN 400 ELSE 500)
                /\ DOMAIN Body = {"error"}
                /\ Body.error # ""

C6_Witness ==
    /\ Done
    /\ cfg.required
    /\ resp.StatusCode = 400
    /\ Body.error = "Query is required"

\* the invocation is past the property-id resolution
PastResolve ==
    pc \in {"details", "groups", "mapagent", "token", "busy", "generate"}
    \/ PipelineResponse

\* C7: with an identifier returned by the language-matching step the search
\* collaborator is never called and the property-detail fetch is made with
\* exactly that identifier; without one, the property-id resolution calls the
\* search collaborator exactly once, with the query of the event.
C7_PreResolvedSkipsSearch ==
    /\ extractedPropertyID # "" =>
          /\ ~Called("FindPropertyID")
          /\ \A i \in CallsOf("GetProperty") : calls[i].arg = extractedPropertyID
          /\ (PastResolve /\ pc # "details") => Cardinality(CallsOf("GetProperty")) = 1
    /\ (extractedPropertyID = "" /\ PastResolve) =>
          /\ Cardinality(CallsOf("FindPropertyID")) = 1
          /\ \A i \in CallsOf("FindPropertyID") : calls[i].arg = ParseEvent(event).query

C7_Witness ==
    /\ Done
    /\ extractedPropertyID = "P2"
    /\ Called("GetProperty")

\* the language-matching step was attempted and failed
MatcherFailed == \E i \in MatcherCalls : ~calls[i].ok

\* C8: a failure of the language-matching collaborator (rate-limit wait error,
\* transport or API error, unparsable answer, index negative or out of range)
\* never ends the invocation: it goes on to the property-id resolution and
\* calls the search collaborator with the query of the event.
C8_MatcherFailureFallsBackToSearch ==
    MatcherFailed =>
        /\ extractedPropertyID = ""
        /\ \/ pc \in {"validate", "resolve"}
           \/ /\ Called("FindPropertyID")
              /\ calls[Cardinality(MatcherCalls) + 1].fn = "FindPropertyID"
              /\ calls[Cardinality(MatcherCalls) + 1].arg = ParseEvent(event).query

C8_Witness ==
    /\ Done
    /\ \E i \in CallsOf("OpenAI") : calls[i].error = "no matching address found"
    /\ Succeeded("FindPropertyID")

\* the invocation was accepted up to the query check and its query is empty
EmptyQueryInvocation ==
    pc # "idle" /\ cfg.required /\ ~ParseEvent(event).failed /\ ParseEvent(event).query = ""

\* C9: an invocation whose query is empty is rejected with the input error
\* and invokes no collaborator, the language-matching step and its rate
\* limiter included.
C9_EmptyQueryFailsFast ==
    EmptyQueryInvocation =>
        /\ calls = <<>>
        /\ limiter = NoLimiter
        /\ pc \in {"validate", "done"}
        /\ Done => resp = [StatusCode |-> 400, ContentType |-> "application/json",
                           Body |-> [error |-> "Query is required"]]

C9_Witness ==
    /\ Done
    /\ EmptyQueryInvocation
    /\ cfg.openaiKey
    /\ Len(candidates) > 0

\* the document the candidates are read from carries a result with both a
\* display address and a property id
InputHasCandidate ==
    LET d == IF event.hasBody THEN event.body ELSE event.doc
    IN \E i \in 1..Len(d.Messages) : \E j \in 1..Len(d.Messages[i].Results) :
          /\ d.Messages[i].Results[j].Address1 # ""
          /\ d.Messages[i].Results[j].PropertyId # ""

\* C10: the language-matching collaborator and its rate limiter are used at
\* most once per invocation, only when the input carries a candidate with both
\* a display address and a property id, and before any call of the pipeline.
C10_MatcherOnceBeforeResolve ==
    /\ Cardinality(CallsOf("WaitForOpenAI")) <= 1
    /\ Cardinality(CallsOf("OpenAI")) <= 1
    /\ MatcherCalls # {} => InputHasCandidate
    /\ MatcherCalls = {} => limiter = NoLimiter
    /\ \A i \in MatcherCalls : \A j \in 1..Len(calls) : IsStageCall(calls[j]) => i < j
    /\ pc \in {"match", "request"} => InputHasCandidate /\ PipelineCalls = <<>>

C10_Witness ==
    /\ Done
    /\ Called("OpenAI")
    /\ Called("FindPropertyID")
    /\ Len(candidates) = 2

\* C11: an invocation waiting in WaitForOpenAI eventually either acquires a token
\* or returns an error, cancelled or not; one whose cancellation fires before
\* its token is due leaves the wait only with the error, and that return takes
\* nothing from the bucket and admits nothing; an invocation whose wait ended in
\* an error never reaches the request.
C11_WaitEndsInTokenOrError ==
    /\ \A i \in Invocations :
        (inv[i].pc = "wait") ~> (inv[i].pc \in {"admitted", "failed"})
    /\ [][\A i \in Invocations :
            (inv[i].pc = "wait" /\ inv[i].cancelled /\ inv[i].due > 0)
                => (inv'[i] = inv[i] \/ inv'[i].pc = "failed")]_vars
    /\ [][\A i \in Invocations :
            (inv[i].pc = "wait" /\ inv'[i].pc = "failed")
                => /\ inv[i].cancelled
                   /\ limiter'.created = limiter.created
                   /\ limiter'.tokens >= limiter.tokens
                   /\ admitted' = admitted]_vars
    /\ [](\A i \in Invocations : inv[i].waitErr => inv[i].pc = "failed")

\* one waiter was cancelled and returned the error while another, after the
\* burst was used up, got its token
C11_Witness ==
    \E i, j \in Invocations :
        /\ i # j
        /\ inv[i].pc = "failed" /\ inv[i].waitErr
        /\ inv[j].pc = "admitted"
        /\ limiter.tokens < TokenParts
        /\ Len(admitted) > OpenAIBurstSize

\* the admitted requests whose age lies in the window a..b (in ticks)
AdmittedIn(a, b) == Cardinality({k \in 1..Len(admitted) : admitted[k] \in a..b})

\* C12 as stated: the invocations share one bucket, created exactly once, whose
\* token count stays within 0..OpenAIBurstSize tokens; in every time window the
\* admitted requests number at most OpenAIBurstSize plus one per whole refill
\* interval (RefillSeconds) that the window spans.
C12_Original_TokensNeverNegative ==
    /\ OpenAIBurstSize = 3 /\ RefillSeconds = 6
    /\ limiter.created <= 1
    /\ (\E i \in Invocations : inv[i].pc # "idle") => limiter.created = 1
    /\ limiter.tokens \in 0..(OpenAIBurstSize * TokenParts)
    /\ \A a, b \in 0..HorizonTicks :
        a <= b => AdmittedIn(a, b) <= OpenAIBurstSize + ((b - a) \div TicksPerRefill)

\* C12, amended: the invocations share one bucket, created exactly once, whose
\* token count never exceeds OpenAIBurstSize tokens and is below 0 only by the
\* tokens reserved ahead for callers, which their deadlines bound; in every time
\* window the admitted requests number at most OpenAIBurstSize plus one per
\* whole refill interval (RefillSeconds) that the window spans.
C12_OneBucketBoundedAdmission ==
    /\ OpenAIBurstSize = 3 /\ RefillSeconds = 6
    /\ limiter.created <= 1
    /\ (\E i \in Invocations : inv[i].pc # "idle") => limiter.created = 1
    /\ limiter.tokens \in (0 - MaxWaitTicks)..(OpenAIBurstSize * TokenParts)
    /\ limiter.tokens < 0 => limiter.lastDue >= 0 - limiter.tokens
    /\ \A a, b \in 0..HorizonTicks :
        a <= b => AdmittedIn(a, b) <= OpenAIBurstSize + ((b - a) \div TicksPerRefill)

\* the bound is met: within one refill interval the burst and one more request
\* were admitted, and the count is below 0 while an invocation waits for the
\* token reserved for it
C12_Witness ==
    /\ AdmittedIn(0, TicksPerRefill) = OpenAIBurstSize + 1
    /\ limiter.tokens < 0
    /\ \E i \in Invocations : inv[i].pc = "wait" /\ ~inv[i].cancelled /\ inv[i].due > 0

\* GenerateAvailableSlots has returned to the handler
Generated == pc = "done" /\ Called("GenerateAvailableSlots")
FreeSlots == generated.availableSlots
MinStart == now + BufferHours * Hour

\* C13: for every reference instant, at any resolution below the minute, and
\* every busy set, no slot returned by GenerateAvailableSlots starts before the
\* reference instant plus two hours.
C13_NoSlotBeforeBuffer ==
    Generated => \A k \in 1..Len(FreeSlots) : FreeSlots[k].Start >= MinStart

\* C14: every slot returned by GenerateAvailableSlots lies on a Monday-Friday
\* local day, starts at or after 09:00 and ends at or before 17:00 of that day,
\* and on a Friday ends at or before 15:30; no slot is on a Saturday or Sunday.
C14_SlotsInsideWorkingHours ==
    Generated =>
        \A k \in 1..Len(FreeSlots) :
            LET slot == FreeSlots[k]
            IN /\ Weekday(slot.Start) \in {"Monday", "Tuesday", "Wednesday", "Thursday", "Friday"}
               /\ slot.Start >= DateAt(slot.Start, 9, 0)
               /\ slot.End <= DateAt(slot.Start, 17, 0)
               /\ Weekday(slot.Start) = "Friday" => slot.End <= DateAt(slot.Start, 15, 30)

\* a result that reaches the edges: a slot from 09:00, one until 17:00 and a
\* Friday slot until 15:30
C14_Witness ==
    /\ Generated
    /\ \E k \in 1..Len(FreeSlots) : FreeSlots[k].Start = DateAt(FreeSlots[k].Start, 9, 0)
    /\ \E k \in 1..Len(FreeSlots) : FreeSlots[k].End = DateAt(FreeSlots[k].Start, 17, 0)
    /\ \E k \in 1..Len(FreeSlots) :
        /\ Weekday(FreeSlots[k].Start) = "Friday"
        /\ FreeSlots[k].End = DateAt(FreeSlots[k].Start, 15, 30)

\* the candidate slots of the invocation, by their start
CandidateStarts == Range(Candidates(now, 0))
FreeStarts == {FreeSlots[k].Start : k \in 1..Len(FreeSlots)}

\* C15: a candidate slot [s, e) is left out of the result exactly when some busy
\* interval [bs, be) has s < be and e > bs; a busy interval that only touches
\* the slot (be = s or bs = e) does not exclude it.
C15_ExcludedIffOverlap ==
    Generated =>
        /\ FreeStarts \subseteq CandidateStarts
        /\ \A s \in CandidateStarts :
            (s \notin FreeStarts) <=>
                (\E i \in 1..Len(busySlots) :
                    s < busySlots[i].End /\ s + SlotDuration > busySlots[i].Start)
        /\ \A s \in CandidateStarts :
            (\A i \in 1..Len(busySlots) :
                busySlots[i].End = s \/ busySlots[i].Start = s + SlotDuration)
                => s \in FreeStarts

\* busy Tuesday 09:00-09:30 alone: the candidate 09:00-09:30 is excluded and
\* the candidate 09:30-10:00 that it touches is returned
C15_Witness ==
    /\ Generated
    /\ busySlots = <<[Start |-> At(1, 9, 0, 0), End |-> At(1, 9, 30, 0)]>>
    /\ At(1, 9, 0, 0) \in CandidateStarts \ FreeStarts
    /\ At(1, 9, 30, 0) \in FreeStarts

\* the candidates that some busy interval overlaps
ExcludedStarts ==
    {s \in CandidateStarts :
        \E i \in 1..Len(busySlots) :
            s < busySlots[i].End /\ s + SlotDuration > busySlots[i].Start}

\* C16: for every reference instant and busy set, the total-candidate count
\* equals the number of returned free slots plus the number of candidates
\* excluded as busy; every candidate is counted exactly once.
C16_TotalIsFreePlusExcluded ==
    Generated =>
        /\ generated.totalSlots = Len(FreeSlots) + Cardinality(ExcludedStarts)
        /\ generated.totalSlots = Cardinality(CandidateStarts)
        /\ Len(FreeSlots) = Cardinality(FreeStarts)

\* some candidates are returned and some are excluded
C16_Witness ==
    /\ Generated
    /\ Len(FreeSlots) > 0
    /\ Cardinality(ExcludedStarts) > 1
    /\ Len(busySlots) = 2

\* the local days the generator looks at, and those of them from Monday to Friday
WindowDays == {AddDays(now, d) : d \in 0..6}
Weekdays == {"Monday", "Tuesday", "Wednesday", "Thursday", "Friday"}
\* the reference day is a weekday whose working hours end before the buffer does
BufferConsumesToday ==
    /\ Weekday(now) \in Weekdays
    /\ MinStart > DateAt(now, IF Weekday(now) = "Friday" THEN 15 ELSE 17,
                         IF Weekday(now) = "Friday" THEN 30 ELSE 0)

\* C17: the business-days-examined count equals the number of Monday-Friday
\* days among the 7 consecutive local days starting at the reference day;
\* weekend days are never counted, and a weekday wholly consumed by the 2-hour
\* buffer is still counted while contributing no candidate.
C17_BusinessDaysExamined ==
    Generated =>
        /\ generated.daysChecked = Cardinality({t \in WindowDays : Weekday(t) \in Weekdays})
        /\ generated.daysChecked = 5
        /\ BufferConsumesToday =>
            \A s \in CandidateStarts : DayIndex(s) # DayIndex(now)

\* a weekday reference late enough for the buffer to pass the end of the day:
\* the day has no candidate and five days are counted
C17_Witness ==
    /\ Generated
    /\ BufferConsumesToday
    /\ generated.daysChecked = 5
    /\ generated.totalSlots > 0

\* the candidates of the local day of t, and the end of its working hours
CandidatesOn(t) == {s \in CandidateStarts : DayIndex(s) = DayIndex(t)}
DayEnd(t) == IF Weekday(t) = "Friday" THEN DateAt(t, 15, 30) ELSE DateAt(t, 17, 0)
\* b is the earliest half-hour boundary at or after t
EarliestBoundaryFrom(b, t) ==
    /\ b % (30 * Minute) = 0
    /\ b >= t
    /\ b - 30 * Minute < t

\* C18: on a business day whose 09:00 start is before minStart, with minStart
\* not after the end of the day, the first candidate of that day starts at the
\* earliest 30-minute boundary at or after minStart (minStart itself when it is
\* on a boundary); reference Monday 08:00 with no busy interval gives Monday
\* 10:00-10:30 as the first free slot.
C18_FirstCandidateAtNextBoundary ==
    Generated =>
        /\ \A t \in WindowDays :
            (/\ Weekday(t) \in Weekdays
             /\ DateAt(t, 9, 0) < MinStart
             /\ MinStart <= DayEnd(t)
             /\ CandidatesOn(t) # {})
            => \E first \in CandidatesOn(t) :
                /\ \A s \in CandidatesOn(t) : first <= s
                /\ EarliestBoundaryFrom(first, MinStart)
        /\ (now = At(0, 8, 0, 0) /\ busySlots = <<>>)
            => /\ FreeSlots # <<>>
               /\ FreeSlots[1].Start = At(0, 10, 0, 0)
               /\ FreeSlots[1].End = At(0, 10, 30, 0)

\* the returned slots of the local day of t, by their start
FreeOn(t) == {s \in FreeStarts : DayIndex(s) = DayIndex(t)}
FridayAfternoon == Generated /\ now = At(4, 14, 0, 0) /\ busySlots = <<>>

\* C19 as stated: with reference Friday 14:00 and no busy interval, the last
\* slot produced on that Friday is 15:00-15:30, and no 15:30-16:00 slot is
\* produced.
C19_Original_LastFridaySlot ==
    FridayAfternoon =>
        /\ At(4, 15, 0, 0) \in FreeOn(now)
        /\ \A s \in FreeOn(now) : s <= At(4, 15, 0, 0)
        /\ At(4, 15, 30, 0) \notin FreeStarts

\* C19, amended: with reference Friday 14:00 and no busy interval the raised
\* start 16:00 is after the Friday end 15:30, so no slot is produced on that
\* Friday at all (none from 15:30 to 16:00 in particular) and the first slot is
\* the following Monday 09:00-09:30; whenever a Friday does yield slots and
\* nothing is busy, the last of them is 15:00-15:30.
C19_FridayAfternoonYieldsNoFridaySlot ==
    /\ FridayAfternoon =>
        /\ FreeOn(now) = {}
        /\ At(4, 15, 30, 0) \notin FreeStarts
        /\ FreeSlots # <<>>
        /\ FreeSlots[1].Start = At(7, 9, 0, 0) /\ FreeSlots[1].End = At(7, 9, 30, 0)
    /\ (Generated /\ busySlots = <<>>) =>
        \A t \in WindowDays :
            (Weekday(t) = "Friday" /\ FreeOn(t) # {})
            => /\ DateAt(t, 15, 0) \in FreeOn(t)
               /\ \A s \in FreeOn(t) : s <= DateAt(t, 15, 0)

\* the scenario of the claim has run, and five business days were examined
C19_Witness ==
    /\ FridayAfternoon
    /\ generated.daysChecked = 5
    /\ generated.totalSlots = 4 * 16

\* the zone a group name stands for once trimmed and upper-cased, "" for none
ExpectedZone(name) ==
    CASE name = <<"P", "D", "2">> -> "PD2"
      [] name = <<"p", "d", "1">> -> "PD1"
      [] name = <<"\r", " ", "P", "d", "3", "\t", "\f">> -> "PD3"
      [] OTHER -> ""
ExpectedAgentName(zone) ==
    CASE zone = "PD1" -> "Gracie" [] zone = "PD2" -> "Elizabeth"
      [] zone = "PD3" -> "Alexandra" [] zone = "PD4" -> "Brandi" [] OTHER -> ""
\* the positions of the groups whose name stands for a zone
ZoneGroups == {k \in 1..Len(groups) : ExpectedZone(groups[k].Name) # ""}
GroupNamesAre(names) ==
    Len(groups) = Len(names) /\ \A k \in 1..Len(names) : groups[k].Name = names[k]

\* C20: MapAgent returns the agent of the first group, in input order, whose
\* trimmed and upper-cased name is a key of the zone table (groups "ops",
\* "PD2", "pd1" give the PD2 agent), with ZoneGroup set to that group's
\* original name; it returns nil exactly when no group name is such a key.
C20_FirstNormalizedMatch ==
    Called("MapAgent") =>
        /\ (pc = "token") <=> (ZoneGroups # {})
        /\ (pc = "done" /\ FailedAt("MapAgent")) <=> (ZoneGroups = {})
        /\ ZoneGroups # {} =>
            LET first == CHOOSE k \in ZoneGroups : \A j \in ZoneGroups : k <= j
            IN /\ agent.Zone = ExpectedZone(groups[first].Name)
               /\ agent.Name = ExpectedAgentName(agent.Zone)
               /\ agent.ZoneGroup = groups[first].Name
        /\ GroupNamesAre(<<(<<"o", "p", "s">>), (<<"P", "D", "2">>), (<<"p", "d", "1">>)>>)
            => agent.Zone = "PD2" /\ agent.Name = "Elizabeth"

\* the groups "ops", " Pd3" inside white space, "pd1": the second one decides,
\* and its name is kept as it came
C20_Witness ==
    /\ Called("MapAgent")
    /\ GroupNamesAre(<<(<<"o", "p", "s">>), (<<"\r", " ", "P", "d", "3", "\t", "\f">>), (<<"p", "d", "1">>)>>)
    /\ agent.Zone = "PD3"
    /\ agent.ZoneGroup = <<"\r", " ", "P", "d", "3", "\t", "\f">>

\* C21: the agent table is unchanged by any sequence or interleaving of MapAgent
\* calls: the value a call copies out of the table never carries a ZoneGroup,
\* and what a call returns depends on its own groups alone.
C21_AgentTableUnchanged ==
    /\ agentTable = PDAgentMap
    /\ \A k \in DOMAIN agentTable : agentTable[k].ZoneGroup = <<>>
    /\ \A i \in Invocations :
        /\ mapInv[i].pc = "assign" => mapInv[i].agent.ZoneGroup = <<>>
        /\ mapInv[i].pc = "returned" =>
            /\ MapAgent(mapInv[i].groups).found
            /\ mapInv[i].agent = MapAgent(mapInv[i].groups).agent
        /\ mapInv[i].pc = "nil" => ~MapAgent(mapInv[i].groups).found

\* one call has returned the PD1 agent with its own group name while another
\* call, for a differently written PD1 group, has just copied the table's value
C21_Witness ==
    \E i, j \in Invocations :
        /\ mapInv[i].pc = "returned" /\ mapInv[i].agent.Zone = "PD1"
        /\ mapInv[j].pc = "assign" /\ mapInv[j].agent.Zone = "PD1"
        /\ mapInv[j].groups[mapInv[j].k].Name # mapInv[i].agent.ZoneGroup

\* the availability of the response
Availability == Body.availability

\* C22: in a success response availability.slots is the chronological prefix of
\* the generated free slots of length min(30, number of free slots),
\* totalSlotsAvailable is the uncapped number of free slots and daysChecked is
\* the generator's business-days-examined count.
C22_SlotsArePrefixOfFree ==
    (Generated /\ Body.success) =>
        /\ Len(Availability.slots) = IF Len(FreeSlots) < 30 THEN Len(FreeSlots) ELSE 30
        /\ \A k \in 1..Len(Availability.slots) : Availability.slots[k] = FreeSlots[k]
        /\ \A k \in 1..(Len(Availability.slots) - 1) :
            Availability.slots[k].Start < Availability.slots[k + 1].Start
        /\ Availability.totalSlotsAvailable = Len(FreeSlots)
        /\ Availability.daysChecked = generated.daysChecked

\* more than 30 free slots: 30 are returned and the total is the full number
C22_Witness ==
    /\ Generated /\ Body.success
    /\ Len(FreeSlots) > 30
    /\ Len(Availability.slots) = 30
    /\ Availability.totalSlotsAvailable = Len(FreeSlots)

\* C26: the returned slots are in strictly increasing chronological order and
\* pairwise disjoint, each exactly 30 minutes long with start < end and a start
\* on a :00 or :30 boundary; on a business day whose start the buffer does not
\* raise the candidates are the consecutive 30-minute slots from 09:00, the
\* last ending at the end of the day: 16 from Monday to Thursday, 13 on Friday.
C26_OrderedHalfHourSlots ==
    Generated =>
        /\ \A k \in 1..(Len(FreeSlots) - 1) :
            /\ FreeSlots[k].Start < FreeSlots[k + 1].Start
            /\ FreeSlots[k].End <= FreeSlots[k + 1].Start
        /\ \A k \in 1..Len(FreeSlots) :
            /\ FreeSlots[k].Start < FreeSlots[k].End
            /\ FreeSlots[k].End - FreeSlots[k].Start = 30 * Minute
            /\ FreeSlots[k].Start % (30 * Minute) = 0
        /\ \A t \in WindowDays :
            (Weekday(t) \in Weekdays /\ ~(DateAt(t, 9, 0) < MinStart)) =>
                LET n == IF Weekday(t) = "Friday" THEN 13 ELSE 16
                IN /\ CandidatesOn(t) = {DateAt(t, 9, 0) + j * 30 * Minute : j \in 0..(n - 1)}
                   /\ DateAt(t, 9, 0) + n * 30 * Minute = DayEnd(t)

\* a weekend reference with nothing busy: four days of 16 slots and a Friday of 13
C26_Witness ==
    /\ Generated
    /\ Weekday(now) = "Saturday"
    /\ busySlots = <<>>
    /\ Len(FreeSlots) = 4 * 16 + 13
    /\ Cardinality(CandidatesOn(AddDays(now, 6))) = 13

FormattedMessage == Body.formattedMessage
BookedPiece == "SHOWING AVAILABILITY:\nNo available time slots found in the next "
ListPiece == "AVAILABLE SHOWING TIMES:\n\n"
\* the last five pieces of a message are a contact line naming agent and email
EndsWithContactLine(msg, a) ==
    LET n == Len(msg)
    IN /\ n >= 5
       /\ \/ /\ msg[n - 4] = "Please contact "
             /\ msg[n - 2] = " directly at "
             /\ msg[n] = " to schedule."
          \/ /\ msg[n - 4] = "\nContact "
             /\ msg[n - 2] = " at "
             /\ msg[n] = " to schedule your showing."
       /\ msg[n - 3] = a.name
       /\ msg[n - 1] = a.email

\* C24: the formatted message is the fully-booked text, naming the number of
\* days examined and listing no slot, exactly when no slot is free; in both
\* cases it ends with a contact line naming the agent and the agent's email.
C24_FullyBookedIffNoFreeSlot ==
    (Generated /\ Body.success) =>
        /\ (BookedPiece \in Range(FormattedMessage)) <=> (Len(FreeSlots) = 0)
        /\ (ListPiece \in Range(FormattedMessage)) <=> (Len(FreeSlots) > 0)
        /\ (Len(FreeSlots) = 0) =>
            /\ \E k \in 1..(Len(FormattedMessage) - 1) :
                /\ FormattedMessage[k] = BookedPiece
                /\ FormattedMessage[k + 1] = ToString(generated.daysChecked)
            /\ "  - " \notin Range(FormattedMessage)
            /\ \A c \in CandidateStarts : FormatClock(c) \notin Range(FormattedMessage)
        /\ EndsWithContactLine(FormattedMessage, Body.agent)

\* every candidate of the week is busy and the message is the fully-booked one
C24_Witness ==
    /\ Generated
    /\ Body.success
    /\ Len(FreeSlots) = 0
    /\ generated.totalSlots > 0
    /\ BookedPiece \in Range(FormattedMessage)
    /\ EndsWithContactLine(FormattedMessage, Body.agent)

\* the display dates of the slots of the response
DisplayDates == {Availability.slots[k].Date : k \in 1..Len(Availability.slots)}
MoreDaysPiece == "...and "

\* C28: in a success response the capped slot list spans at most 5 display
\* dates, so the handler never emits the line reporting more days with
\* availability.
C28_AtMostFiveDisplayDates ==
    (Generated /\ Body.success) =>
        /\ Cardinality(DisplayDates) <= 5
        /\ Cardinality({FreeSlots[k].Date : k \in 1..Len(FreeSlots)}) <= 5
        /\ MoreDaysPiece \notin Range(FormattedMessage)

\* fewer than 30 free slots spread over all five business days of the window
C28_Witness ==
    /\ Generated
    /\ Body.success
    /\ Len(FreeSlots) < 30
    /\ Cardinality(DisplayDates) = 5
    /\ ListPiece \in Range(FormattedMessage)
    /\ MoreDaysPiece \notin Range(FormattedMessage)

\* the arguments of the formatMessage calls and what a call returned
FmtSlots == fmtAvail.Slots
FmtDates == {FmtSlots[k].Date : k \in 1..Len(FmtSlots)}
\* where a date is first seen, how many dates are seen before it, its slots
FirstSeen(d) == CHOOSE k \in 1..Len(FmtSlots) :
                    FmtSlots[k].Date = d /\ \A j \in 1..(k - 1) : FmtSlots[j].Date # d
RankOf(d) == Cardinality({e \in FmtDates : FirstSeen(e) < FirstSeen(d)})
SlotsOfDate(d) == {k \in 1..Len(FmtSlots) : FmtSlots[k].Date = d}
\* the i-th time of date d, in the order of the slot list
TimeOfDate(d, i) ==
    LET k == CHOOSE j \in SlotsOfDate(d) :
                 Cardinality({x \in SlotsOfDate(d) : x <= j}) = i
    IN FmtSlots[k].Time
Least(a, b) == IF a < b THEN a ELSE b
PiecesAt(msg, piece) == {k \in 1..Len(msg) : msg[k] = piece}
\* the positions of the date headers: a piece followed by ":\n"
HeadersOf(msg) == {k \in 1..(Len(msg) - 1) : msg[k + 1] = ":\n"}

GroupedByDate(msg) ==
    LET n == Cardinality(FmtDates)
        headers == HeadersOf(msg)
    IN /\ Cardinality(headers) = Least(n, 5)
       /\ {msg[k] : k \in headers} = {d \in FmtDates : RankOf(d) < 5}
       /\ \A k1, k2 \in headers : k1 < k2 => RankOf(msg[k1]) < RankOf(msg[k2])
       /\ \A k \in headers :
            LET c == Cardinality(SlotsOfDate(msg[k]))
                shown == Least(c, 6)
                after == k + 2 + 3 * shown
            IN /\ \A i \in 0..(shown - 1) :
                    /\ msg[k + 2 + 3 * i] = "  - "
                    /\ msg[k + 3 + 3 * i] = TimeOfDate(msg[k], i + 1)
                    /\ msg[k + 4 + 3 * i] = "\n"
               /\ IF c > 6
                  THEN /\ msg[after] = "  - ..."
                       /\ msg[after + 1] = ToString(c - 6)
                       /\ msg[after + 2] = " more times available\n"
                       /\ msg[after + 3] = "\n"
                  ELSE msg[after] = "\n"
       /\ Cardinality(PiecesAt(msg, "  - ")) =
            Cardinality({<<d, i>> \in FmtDates \X (1..6) :
                           RankOf(d) < 5 /\ i <= Cardinality(SlotsOfDate(d))})
       /\ Cardinality(PiecesAt(msg, "  - ...")) =
            Cardinality({d \in FmtDates : RankOf(d) < 5 /\ Cardinality(SlotsOfDate(d)) > 6})
       /\ Cardinality(PiecesAt(msg, "...and ")) = (IF n > 5 THEN 1 ELSE 0)
       /\ \A k \in PiecesAt(msg, "...and ") :
            /\ msg[k + 1] = ToString(n - 5)
            /\ msg[k + 2] = " more days with availability\n"

\* C23: with slots to show, formatMessage groups the times by display date in
\* first-seen order and shows at most 5 dates and 6 times per date: a date
\* with k > 6 times gets exactly one extra line reporting k - 6 more and a
\* date with k <= 6 none; n > 5 dates give exactly one line reporting n - 5
\* more days and n <= 5 none.
C23_GroupedAndTruncated ==
    (pc = "format" /\ Len(FmtSlots) > 0) =>
        \A c \in 1..Len(fmtOut) : GroupedByDate(fmtOut[c].msg)

\* seven dates listed latest first, the first revisited at the end, with 2, 6,
\* 7 and 9 times among the five that are shown
C23_Witness ==
    /\ pc = "format"
    /\ Len(fmtOut) > 0
    /\ Cardinality(FmtDates) = 7
    /\ FmtSlots[1].Date = FmtSlots[Len(FmtSlots)].Date
    /\ FmtSlots[1].Start > FmtSlots[Len(FmtSlots) - 1].Start
    /\ \E d \in FmtDates : RankOf(d) < 5 /\ Cardinality(SlotsOfDate(d)) = 9
    /\ \E d \in FmtDates : RankOf(d) < 5 /\ Cardinality(SlotsOfDate(d)) = 6
    /\ \E d \in FmtDates : RankOf(d) < 5 /\ Cardinality(SlotsOfDate(d)) = 2
    /\ GroupedByDate(fmtOut[1].msg)
    /\ PiecesAt(fmtOut[1].msg, "...and ") # {}

\* C25: formatMessage is deterministic: calls on identical arguments return
\* identical text, whatever order the runtime iterates the date-to-times map in.
C25_SameInputSameMessage ==
    pc = "format" =>
        \A c1, c2 \in 1..Len(fmtOut) : fmtOut[c1].msg = fmtOut[c2].msg

\* two calls on several dates under different iteration orders of the map
C25_Witness ==
    /\ pc = "format"
    /\ Len(fmtOut) = 2
    /\ Cardinality(FmtDates) >= 3
    /\ fmtOut[1].mapOrder # fmtOut[2].mapOrder
    /\ fmtOut[1].msg = fmtOut[2].msg

\* the window the calendar was asked for
BusyQuery == calls[CHOOSE i \in CallsOf("GetBusySlots") : TRUE].arg

\* C27: the calendar is asked for [now, now + 7 days) and the same now is the
\* reference handed to GenerateAvailableSlots, so every candidate slot the
\* generator examines lies entirely inside the window that was asked for.
C27_CandidatesInsideQueriedWindow ==
    (Done /\ Called("GenerateAvailableSlots")) =>
        /\ Cardinality(CallsOf("GetBusySlots")) = 1
        /\ BusyQuery.timeMin = now
        /\ BusyQuery.timeMax = now + 7 * Day
        /\ \A i \in CallsOf("GenerateAvailableSlots") : calls[i].arg = BusyQuery.timeMin
        /\ generated.totalSlots = Len(Candidates(BusyQuery.timeMin, 0))
        /\ \A s \in Range(Candidates(BusyQuery.timeMin, 0)) :
            /\ BusyQuery.timeMin <= s
            /\ s + SlotDuration <= BusyQuery.timeMax

\* a Saturday reference: the last candidates are those of the sixth day after
C27_Witness ==
    /\ Done
    /\ Called("GenerateAvailableSlots")
    /\ Weekday(now) = "Saturday"
    /\ busySlots # <<>>
    /\ \E s \in Range(Candidates(BusyQuery.timeMin, 0)) : DayIndex(s) = DayIndex(now) + 6
    /\ \A s \in Range(Candidates(BusyQuery.timeMin, 0)) : s + SlotDuration <= BusyQuery.timeMax

====
